---- MODULE Spec2Model ----
(***************************************************************************)
(* Free/busy slot computation of cal-snap-compose.                         *)
(*                                                                         *)
(* Time is counted in whole minutes since an epoch that falls on a local   *)
(* midnight; a Date is such a number, a calendar day is a multiple of      *)
(* MinutesPerDay.  The sources work in milliseconds, every quantity they   *)
(* compare is a whole number of minutes times 60000.                       *)
(***************************************************************************)
EXTENDS Integers, Sequences, FiniteSets, TLC

\* ------------------------------------------------------------------------
\* Bounds of the model
\* ------------------------------------------------------------------------
MaxBusy == 2

\* number of events in an imported file besides the long one
MaxExtraEvents == 1

\* a click toggles one of the first MaxToggleIndex slots of a date
MaxToggleIndex == 2

\* fetchCalendarData calls in flight at a time
MaxRuns == 1

\* the number of times the clock moves on
MaxClock == 2

\* the slots a generateSlotsForDuration call is followed for (a day of
\* 5-minute slots has 96)
MaxLoopSlots == 100

\* the access tokens the token endpoint issues, logins and refreshes together
MaxIssued == 3

\* the getValidAccessToken calls that wait for a refresh response at a time
MaxRefreshCalls == 2

\* the calendar day the sweeps are exercised on (a day number)
SweepDay == 1

\* minutes of the day at which a busy interval of the inputs starts or ends
BusyMinutes == {500, 540, 590, 595, 625, 1005, 1030, 1050}

\* durations handed to the sweeps: the fixed strategies and a custom value
SweepDurations == {15, 30, 60, 25}

\* ------------------------------------------------------------------------
\* Dates and formatting (date-fns)
\* ------------------------------------------------------------------------
MinutesPerDay == 1440

Min(a, b) == IF a <= b THEN a ELSE b

Max(a, b) == IF a >= b THEN a ELSE b

\* new Date(date).setHours(h, 0, 0, 0)
setHours(date, h) == (date \div MinutesPerDay) * MinutesPerDay + h * 60

addMinutes(t, d) == t + d

\* format(t, 'yyyy-MM-dd'): the calendar day of the instant
formatDate(t) == t \div MinutesPerDay

\* format(t, 'HH:mm'): 24-hour clock, hours and minutes
formatHHmm(t) == << (t % MinutesPerDay) \div 60, t % 60 >>

\* format(t, 'h:mm a'): 12-hour clock with AM/PM
formathmma(t) ==
    LET h24 == (t % MinutesPerDay) \div 60
        h12 == IF h24 % 12 = 0 THEN 12 ELSE h24 % 12
    IN  << h12, t % 60, IF h24 < 12 THEN "AM" ELSE "PM" >>

\* ------------------------------------------------------------------------
\* Array helpers
\* ------------------------------------------------------------------------
RECURSIVE SeqFilterStart(_, _, _)
\* Array.prototype.filter for the working-hours overlap test
SeqFilterStart(s, lo, hi) ==
    IF s = << >> THEN << >>
    ELSE LET h == Head(s)
             r == SeqFilterStart(Tail(s), lo, hi)
         IN  IF h.start < hi /\ h.end > lo THEN << h >> \o r ELSE r

RECURSIVE InsertByStart(_, _)
\* insert x behind every element whose start is <= x.start (stable)
InsertByStart(sorted, x) ==
    IF sorted = << >> THEN << x >>
    ELSE IF Head(sorted).start <= x.start
         THEN << Head(sorted) >> \o InsertByStart(Tail(sorted), x)
         ELSE << x >> \o sorted

RECURSIVE sortByStart(_)
\* Array.prototype.sort((a, b) => a.start - b.start), a stable sort
sortByStart(s) ==
    IF s = << >> THEN << >>
    ELSE InsertByStart(sortByStart(SubSeq(s, 1, Len(s) - 1)), s[Len(s)])

\* ------------------------------------------------------------------------
\* GoogleCalendarService.generateAvailableSlots (API-key service)
\* ------------------------------------------------------------------------
ServiceSlot(cur, slotEnd) ==
    [ start |-> formathmma(cur), end |-> formathmma(slotEnd),
      startTime |-> cur, endTime |-> slotEnd ]

\* start of the free period number i (0 .. Len(sorted)) of the sweep
ServicePeriodStart(sorted, i, workStart) ==
    IF i = 0 THEN workStart ELSE sorted[i].end

ServicePeriodEnd(sorted, i, workEnd) ==
    IF i = Len(sorted) THEN workEnd ELSE sorted[i + 1].start

RECURSIVE ServiceFill(_, _, _, _)
\* the inner while loop: slots of slotDuration minutes from cur up to periodEnd
ServiceFill(cur, periodEnd, workEnd, slotDuration) ==
    IF cur + slotDuration <= periodEnd
    THEN (IF addMinutes(cur, slotDuration) <= workEnd
          THEN << ServiceSlot(cur, addMinutes(cur, slotDuration)) >>
          ELSE << >>)
         \o ServiceFill(addMinutes(cur, slotDuration), periodEnd, workEnd, slotDuration)
    ELSE << >>

RECURSIVE ServicePeriods(_, _, _, _, _)
\* the for loop over i = 0 .. sortedBusyIntervals.length
ServicePeriods(sorted, i, workStart, workEnd, slotDuration) ==
    IF i > Len(sorted) THEN << >>
    ELSE ServiceFill(ServicePeriodStart(sorted, i, workStart),
                     ServicePeriodEnd(sorted, i, workEnd), workEnd, slotDuration)
         \o ServicePeriods(sorted, i + 1, workStart, workEnd, slotDuration)

generateAvailableSlots(date, busyIntervals, slotDuration, workingHours) ==
    LET workStart == setHours(date, workingHours.start)
        workEnd   == setHours(date, workingHours.end)
        sortedBusyIntervals ==
            sortByStart(SeqFilterStart(busyIntervals, workStart, workEnd))
    IN  IF Len(sortedBusyIntervals) = 0
        THEN ServiceFill(workStart, workEnd, workEnd, slotDuration)
        ELSE ServicePeriods(sortedBusyIntervals, 0, workStart, workEnd, slotDuration)

DefaultWorkingHours == [ start |-> 9, end |-> 17 ]

\* ------------------------------------------------------------------------
\* useCalendarSlots.generateSlotsForDuration (the hook's copy of the sweep)
\* ------------------------------------------------------------------------
HookSlot(date, cur, slotEnd, slotDuration) ==
    [ start |-> formathmma(cur), end |-> formathmma(slotEnd),
      startTime |-> cur, endTime |-> slotEnd, selected |-> TRUE,
      id |-> << formatDate(date), formatHHmm(cur), slotDuration >> ]

RECURSIVE HookFill(_, _, _, _, _)
HookFill(date, cur, periodEnd, workEnd, slotDuration) ==
    IF cur + slotDuration <= periodEnd
    THEN (IF addMinutes(cur, slotDuration) <= workEnd
          THEN << HookSlot(date, cur, addMinutes(cur, slotDuration), slotDuration) >>
          ELSE << >>)
         \o HookFill(date, addMinutes(cur, slotDuration), periodEnd, workEnd, slotDuration)
    ELSE << >>

RECURSIVE HookPeriods(_, _, _, _, _, _)
HookPeriods(date, sorted, i, workStart, workEnd, slotDuration) ==
    IF i > Len(sorted) THEN << >>
    ELSE HookFill(date, IF i = 0 THEN workStart ELSE sorted[i].end,
                  IF i = Len(sorted) THEN workEnd ELSE sorted[i + 1].start,
                  workEnd, slotDuration)
         \o HookPeriods(date, sorted, i + 1, workStart, workEnd, slotDuration)

useCalendarSlots_generateSlotsForDuration(date, busyIntervals, slotDuration) ==
    LET workStart == setHours(date, DefaultWorkingHours.start)
        workEnd   == setHours(date, DefaultWorkingHours.end)
        sortedBusyIntervals ==
            sortByStart(SeqFilterStart(busyIntervals, workStart, workEnd))
    IN  IF Len(sortedBusyIntervals) = 0
        THEN HookFill(date, workStart, workEnd, workEnd, slotDuration)
        ELSE HookPeriods(date, sortedBusyIntervals, 0, workStart, workEnd, slotDuration)

\* ------------------------------------------------------------------------
\* ICSCalendarView.generateSlotsForDuration
\* ------------------------------------------------------------------------
ICSDayStartHour == 9

ICSDayEndHour == 17

ICSSlot(selectedDate, cur, slotEnd, duration) ==
    [ start |-> formathmma(cur), end |-> formathmma(slotEnd),
      startTime |-> cur, endTime |-> slotEnd, selected |-> TRUE,
      id |-> << formatDate(selectedDate), formatHHmm(cur), duration >> ]

\* a test that also drops the slots of exactly the duration
ICSFullDuration_strict(cur, slotEnd, duration) == slotEnd - cur > duration

\* "Only add slot if it's the full duration"
ICSFullDuration(cur, slotEnd, duration) == slotEnd - cur >= duration

RECURSIVE ICSFill(_, _, _, _)
\* while (currentTime < limit) { ... }: the slots pushed
ICSFill(selectedDate, cur, limit, duration) ==
    IF cur < limit
    THEN LET slotEnd == Min(addMinutes(cur, duration), limit)
         IN  (IF ICSFullDuration(cur, slotEnd, duration)
              THEN << ICSSlot(selectedDate, cur, slotEnd, duration) >>
              ELSE << >>)
             \o ICSFill(selectedDate, addMinutes(cur, duration), limit, duration)
    ELSE << >>

RECURSIVE ICSFillEnd(_, _, _)
\* while (currentTime < limit) { ... }: currentTime when the loop exits
ICSFillEnd(cur, limit, duration) ==
    IF cur < limit THEN ICSFillEnd(addMinutes(cur, duration), limit, duration)
    ELSE cur

\* a sweep that jumps to the end of the event, also backwards
ICSAfterEvent_jump(cur, eventEnd) == eventEnd

\* "Move current time to after this event"
ICSAfterEvent(cur, eventEnd) == Max(cur, eventEnd)

RECURSIVE ICSEvents(_, _, _, _, _, _)
\* the for loop over blockingEvents followed by the final while loop
ICSEvents(selectedDate, blockingEvents, cur, dayStart, dayEnd, duration) ==
    IF blockingEvents = << >>
    THEN ICSFill(selectedDate, cur, dayEnd, duration)
    ELSE LET event      == Head(blockingEvents)
             eventStart == Max(event.start, dayStart)
             eventEnd   == Min(event.end, dayEnd)
         IN  ICSFill(selectedDate, cur, eventStart, duration)
             \o ICSEvents(selectedDate, Tail(blockingEvents),
                          ICSAfterEvent(ICSFillEnd(cur, eventStart, duration), eventEnd),
                          dayStart, dayEnd, duration)

ICS_generateSlotsForDuration(selectedDate, blockingEvents, duration) ==
    LET dayStart == setHours(selectedDate, ICSDayStartHour)
        dayEnd   == setHours(selectedDate, ICSDayEndHour)
    IN  ICSEvents(selectedDate, blockingEvents, dayStart, dayStart, dayEnd, duration)

\* ------------------------------------------------------------------------
\* Slot lists: sorting, grouping, selection
\* ------------------------------------------------------------------------
\* the position under a sort that turns the slots of one start around
SlotRank_tiesReversed(slots, i) ==
    Cardinality({ j \in 1..Len(slots) : slots[j].startTime < slots[i].startTime })
    + Cardinality({ j \in i..Len(slots) : slots[j].startTime = slots[i].startTime })

\* position of slots[i] after slots.sort((a, b) => a.startTime - b.startTime):
\* behind the slots that start earlier and behind the earlier slots of the
\* same start (the sort is stable)
SlotRank(slots, i) ==
    Cardinality({ j \in 1..Len(slots) : slots[j].startTime < slots[i].startTime })
    + Cardinality({ j \in 1..i : slots[j].startTime = slots[i].startTime })

\* slots.sort((a, b) => a.startTime - b.startTime)
sortByStartTime(slots) ==
    LET n    == Len(slots)
        rank == [ i \in 1..n |-> SlotRank(slots, i) ] \o << >>
    IN  [ k \in 1..n |-> slots[CHOOSE i \in 1..n : rank[i] = k] ] \o << >>

\* slot.id = `${prefix}-${slot.id}` on every slot of the list
PrefixIds(prefix, slots) ==
    [ k \in 1..Len(slots) |-> [ slots[k] EXCEPT !.id = << prefix >> \o @ ] ] \o << >>

RECURSIVE GroupRunEnd(_, _)
\* "Find consecutive slots": index of the last slot of the run through endIdx
GroupRunEnd(slots, endIdx) ==
    IF endIdx + 1 <= Len(slots)
       /\ slots[endIdx + 1].startTime = slots[endIdx].endTime
    THEN GroupRunEnd(slots, endIdx + 1)
    ELSE endIdx

\* a grouped slot named after the start of its last base slot
GroupedSlot_lastStart(currentSlot, endSlot, dateKey) ==
    [ start |-> currentSlot.start, end |-> endSlot.end,
      startTime |-> currentSlot.startTime, endTime |-> endSlot.endTime,
      selected |-> TRUE,
      id |-> << "grouped", dateKey, formatHHmm(endSlot.startTime),
                endSlot.endTime - currentSlot.startTime >> ]

GroupedSlot(currentSlot, endSlot, dateKey) ==
    [ start |-> currentSlot.start, end |-> endSlot.end,
      startTime |-> currentSlot.startTime, endTime |-> endSlot.endTime,
      selected |-> TRUE,
      id |-> << "grouped", dateKey, formatHHmm(currentSlot.startTime),
                endSlot.endTime - currentSlot.startTime >> ]

RECURSIVE ICSGroupFrom(_, _, _)
\* the grouping loop of generateAvailability, from base slot i on
ICSGroupFrom(baseSlots, i, selectedDate) ==
    IF i > Len(baseSlots) THEN << >>
    ELSE LET j == GroupRunEnd(baseSlots, i)
         IN  << GroupedSlot(baseSlots[i], baseSlots[j], formatDate(selectedDate)) >>
             \o ICSGroupFrom(baseSlots, j + 1, selectedDate)

\* the selected slots of every day, days without one included
SelectedSlotsOf_keepEmpty(avail) ==
    [ k \in 1..Len(avail) |->
        [ date |-> avail[k].date,
          slots |-> SelectSeq(avail[k].slots, LAMBDA sl : sl.selected) ] ] \o << >>

\* daySlot.slots.filter(slot => slot.selected), days without one left out
SelectedSlotsOf(avail) ==
    LET perDay == [ k \in 1..Len(avail) |->
                      [ date |-> avail[k].date,
                        slots |-> SelectSeq(avail[k].slots, LAMBDA sl : sl.selected) ] ]
    IN  SelectSeq(perDay, LAMBDA day : Len(day.slots) > 0)

\* a comparison of the ids that leaves the strategy tag out
ToggleMatches_noTag(slot, slotId) == Tail(slot.id) = Tail(slotId)

\* slot.id === slotId ? { ...slot, selected: !slot.selected } : slot
ToggleMatches(slot, slotId) == slot.id = slotId

ToggleIn(avail, slotId) ==
    [ k \in 1..Len(avail) |->
        [ avail[k] EXCEPT !.slots =
            [ n \in 1..Len(@) |->
                IF ToggleMatches(@[n], slotId)
                THEN [ @[n] EXCEPT !.selected = ~@ ]
                ELSE @[n] ] ] ]

\* a select-all that passes over the first slot of every day
SetAllSelected_fromSecond(avail, value) ==
    [ k \in 1..Len(avail) |->
        [ avail[k] EXCEPT !.slots =
            [ n \in 1..Len(@) |->
                IF n = 1 THEN @[n] ELSE [ @[n] EXCEPT !.selected = value ] ] ] ]

\* slots: daySlot.slots.map(slot => ({ ...slot, selected: value }))
SetAllSelected(avail, value) ==
    [ k \in 1..Len(avail) |->
        [ avail[k] EXCEPT !.slots =
            [ n \in 1..Len(@) |-> [ @[n] EXCEPT !.selected = value ] ] ] ]

\* ------------------------------------------------------------------------
\* ICSCalendarView
\* ------------------------------------------------------------------------
startOfDay(t) == (t \div MinutesPerDay) * MinutesPerDay

endOfDay(t) == startOfDay(t) + MinutesPerDay - 1

isSameDay(a, b) == startOfDay(a) = startOfDay(b)

isAllDayEvent(event) ==
    /\ event.start % MinutesPerDay = 0
    /\ event.end % MinutesPerDay = 0
    /\ event.end - event.start >= MinutesPerDay

getEventsForDate(events, date) ==
    SelectSeq(events, LAMBDA event :
        \/ isSameDay(event.start, date)
        \/ isSameDay(event.end, date)
        \/ (date >= startOfDay(event.start) /\ date <= endOfDay(event.end)))

\* the events of the date without the test against the 09:00-17:00 window
ICSBlockingEvents_unfiltered(events, selectedDate) ==
    sortByStart(
        SelectSeq(getEventsForDate(events, selectedDate),
                  LAMBDA e : ~isAllDayEvent(e)))

\* blockingEvents: not all-day, meeting the 09:00-17:00 window, sorted by start
ICSBlockingEvents(events, selectedDate) ==
    sortByStart(
        SelectSeq(
            SelectSeq(getEventsForDate(events, selectedDate),
                      LAMBDA e : ~isAllDayEvent(e)),
            LAMBDA event : /\ event.start < selectedDate + 17 * 60
                           /\ event.end > selectedDate + 9 * 60))

StandardDurations == << 15, 30, 60 >>

\* a standard duration as it appears in a template string and as a set key
DurationTag(d) == CASE d = 15 -> "15" [] d = 30 -> "30" [] d = 60 -> "60"

RECURSIVE ICSStandardSlots(_, _, _, _)
\* the loop over the selected standard durations, from the k-th one on
ICSStandardSlots(selectedDate, blockingEvents, durations, k) ==
    IF k > Len(StandardDurations) THEN << >>
    ELSE (IF DurationTag(StandardDurations[k]) \in durations
          THEN PrefixIds(DurationTag(StandardDurations[k]),
                   ICS_generateSlotsForDuration(selectedDate, blockingEvents,
                                                StandardDurations[k]))
          ELSE << >>)
         \o ICSStandardSlots(selectedDate, blockingEvents, durations, k + 1)

ICSDaySlots(events, selectedDate, durations, custom) ==
    LET blockingEvents == ICSBlockingEvents(events, selectedDate)
        grouped ==
            IF "grouped" \in durations
            THEN ICSGroupFrom(
                     ICS_generateSlotsForDuration(selectedDate, blockingEvents, 30),
                     1, selectedDate)
            ELSE << >>
        customSlots ==
            IF "custom" \in durations /\ custom > 0
            THEN PrefixIds("custom",
                     ICS_generateSlotsForDuration(selectedDate, blockingEvents, custom))
            ELSE << >>
    IN  sortByStartTime(
            grouped
            \o ICSStandardSlots(selectedDate, blockingEvents, durations, 1)
            \o customSlots)

RECURSIVE ICS_generateAvailability(_, _, _, _)
\* the availability generateAvailability builds, one entry per selected date
\* (empty without dates)
ICS_generateAvailability(events, dates, durations, custom) ==
    IF dates = << >> THEN << >>
    ELSE << [ date  |-> Head(dates),
              slots |-> ICSDaySlots(events, Head(dates), durations, custom) ] >>
         \o ICS_generateAvailability(events, Tail(dates), durations, custom)

\* ------------------------------------------------------------------------
\* GoogleCalendarService.getAvailableSlots and GoogleCalendarView's use of it
\* ------------------------------------------------------------------------
\* the events request: timeMin = startOfDay, timeMax = endOfDay,
\* singleEvents, orderBy = startTime
getCalendarEvents(calendar, startDate, endDate) ==
    sortByStart(SelectSeq(calendar, LAMBDA e :
        e.end > startOfDay(startDate) /\ e.start < endOfDay(endDate)))

\* "Filter out all-day events and cancelled events", then the intervals
BusyIntervalsOf(events) ==
    LET timedEvents == SelectSeq(events, LAMBDA event :
                           event.dateTime /\ event.status # "cancelled")
    IN  [ k \in 1..Len(timedEvents) |->
            [ start |-> timedEvents[k].start, end |-> timedEvents[k].end ] ] \o << >>

RECURSIVE getAvailableSlots(_, _, _, _)
\* a getAvailableSlots without the try/catch around a date: a request that
\* fails ends the call without a list
getAvailableSlots_abort(calendar, selectedDates, slotDuration, failed) ==
    IF \E k \in 1..Len(selectedDates) : selectedDates[k] \in failed
    THEN << >>
    ELSE SelectSeq(
             [ k \in 1..Len(selectedDates) |->
                 [ date  |-> selectedDates[k],
                   slots |-> generateAvailableSlots(selectedDates[k],
                                 BusyIntervalsOf(getCalendarEvents(calendar,
                                     selectedDates[k], selectedDates[k])),
                                 slotDuration, DefaultWorkingHours) ] ] \o << >>,
             LAMBDA entry : Len(entry.slots) > 0)

\* one entry per date that has a free slot; a date whose request fails
\* (failed) is skipped
getAvailableSlots(calendar, selectedDates, slotDuration, failed) ==
    IF selectedDates = << >> THEN << >>
    ELSE LET date == Head(selectedDates)
             rest == getAvailableSlots(calendar, Tail(selectedDates), slotDuration, failed)
             slots == generateAvailableSlots(date,
                          BusyIntervalsOf(getCalendarEvents(calendar, date, date)),
                          slotDuration, DefaultWorkingHours)
         IN  IF date \in failed THEN rest
             ELSE IF Len(slots) > 0
                  THEN << [ date |-> date, slots |-> slots ] >> \o rest
                  ELSE rest

RECURSIVE GoogleGroupFrom(_, _, _)
\* the grouping loop of fetchCalendarData, from base slot i on
GoogleGroupFrom(slots, i, dateKey) ==
    IF i > Len(slots) THEN << >>
    ELSE LET j == GroupRunEnd(slots, i)
         IN  << GroupedSlot(slots[i], slots[j], dateKey) >>
             \o GoogleGroupFrom(slots, j + 1, dateKey)

\* every base slot as a grouped slot of its own
generateGroupedSlots_ungrouped(baseSlots, date) ==
    [ k \in 1..Len(baseSlots) |->
        GroupedSlot(baseSlots[k], baseSlots[k], formatDate(date)) ] \o << >>

\* useCalendarSlots.generateGroupedSlots
generateGroupedSlots(baseSlots, date) ==
    GoogleGroupFrom(baseSlots, 1, formatDate(date))

\* ids that leave the strategy out
GoogleWithIds_samePrefix(prefix, dateKey, slots) ==
    [ k \in 1..Len(slots) |->
        [ start |-> slots[k].start, end |-> slots[k].end,
          startTime |-> slots[k].startTime, endTime |-> slots[k].endTime,
          selected |-> TRUE,
          id |-> << "slot", dateKey, slots[k].start >> ] ] \o << >>

\* slotsWithIds: selected: true, id: `${prefix}-${dateKey}-${slot.start}`
GoogleWithIds(prefix, dateKey, slots) ==
    [ k \in 1..Len(slots) |->
        [ start |-> slots[k].start, end |-> slots[k].end,
          startTime |-> slots[k].startTime, endTime |-> slots[k].endTime,
          selected |-> TRUE,
          id |-> << prefix, dateKey, slots[k].start >> ] ] \o << >>

closestDuration(customMinutes) ==
    IF customMinutes <= 22 THEN 15 ELSE IF customMinutes <= 45 THEN 30 ELSE 60

RECURSIVE GooglePushed(_, _, _, _)
\* what the forEach over a getAvailableSlots result pushes into the list of
\* dateKey: kind is "grouped" or the id prefix
GooglePushed(result, dateKey, kind, grouped) ==
    IF result = << >> THEN << >>
    ELSE (IF formatDate(Head(result).date) = dateKey
          THEN (IF grouped
                THEN GoogleGroupFrom(Head(result).slots, 1, dateKey)
                ELSE GoogleWithIds(kind, dateKey, Head(result).slots))
          ELSE << >>)
         \o GooglePushed(Tail(result), dateKey, kind, grouped)

RECURSIVE GoogleStandardSlots(_, _, _, _, _)
\* the loop over the selected standard durations, from the k-th one on
GoogleStandardSlots(calendar, dates, durations, dateKey, k) ==
    IF k > Len(StandardDurations) THEN << >>
    ELSE (IF DurationTag(StandardDurations[k]) \in durations
          THEN GooglePushed(getAvailableSlots(calendar, dates, StandardDurations[k], {}),
                            dateKey, DurationTag(StandardDurations[k]), FALSE)
          ELSE << >>)
         \o GoogleStandardSlots(calendar, dates, durations, dateKey, k + 1)

\* allSlotsByDate.get(dateKey) at the end of fetchCalendarData, sorted
GoogleDaySlots(calendar, dates, durations, custom, dateKey) ==
    LET grouped ==
            IF "grouped" \in durations
            THEN GooglePushed(getAvailableSlots(calendar, dates, 30, {}),
                              dateKey, "grouped", TRUE)
            ELSE << >>
        customSlots ==
            IF "custom" \in durations /\ custom > 0
            THEN GooglePushed(getAvailableSlots(calendar, dates,
                                                closestDuration(custom), {}),
                              dateKey, "custom", FALSE)
            ELSE << >>
    IN  sortByStartTime(
            grouped
            \o GoogleStandardSlots(calendar, dates, durations, dateKey, 1)
            \o customSlots)

\* the availability fetchCalendarData computes from the inputs it captured
Google_availableSlots(calendar, dates, durations, custom) ==
    [ k \in 1..Len(dates) |->
        [ date  |-> dates[k],
          slots |-> GoogleDaySlots(calendar, dates, durations, custom,
                                   formatDate(dates[k])) ] ] \o << >>

\* ------------------------------------------------------------------------
\* components/ICSCalendarView.tsx: the view with one duration select
\* ------------------------------------------------------------------------
\* generateSlotsForDuration of this file: the same sweep, the labels are
\* format(.., 'HH:mm')
ICSView_generateSlotsForDuration(selectedDate, blockingEvents, duration) ==
    LET timeSlots == ICS_generateSlotsForDuration(selectedDate, blockingEvents, duration)
    IN  [ k \in 1..Len(timeSlots) |->
            [ timeSlots[k] EXCEPT !.start = formatHHmm(timeSlots[k].startTime),
                                  !.end = formatHHmm(timeSlots[k].endTime) ] ] \o << >>

\* allTimeSlots of one date: duration is the value of the select; the custom
\* branch has no test of customDuration (a customDuration <= 0 keeps the
\* loops of the sweep going for ever, see LoopStep)
ICSViewDaySlots(events, selectedDate, duration, custom) ==
    LET blockingEvents == ICSBlockingEvents(events, selectedDate)
    IN  CASE duration = "both" ->
                 sortByStartTime(
                     PrefixIds("30", ICSView_generateSlotsForDuration(
                                         selectedDate, blockingEvents, 30))
                     \o PrefixIds("60", ICSView_generateSlotsForDuration(
                                            selectedDate, blockingEvents, 60)))
          [] duration = "custom" ->
                 PrefixIds("custom", ICSView_generateSlotsForDuration(
                                         selectedDate, blockingEvents, custom))
          [] duration = "30" ->
                 ICSView_generateSlotsForDuration(selectedDate, blockingEvents, 30)
          [] duration = "60" ->
                 ICSView_generateSlotsForDuration(selectedDate, blockingEvents, 60)

\* availableSlots: one entry per selected date
ICSView_availableSlots(events, dates, duration, custom) ==
    [ k \in 1..Len(dates) |->
        [ date  |-> dates[k],
          slots |-> ICSViewDaySlots(events, dates[k], duration, custom) ] ] \o << >>

\* ------------------------------------------------------------------------
\* GoogleCalendarView: the event cache
\* ------------------------------------------------------------------------
\* 5 * 60 * 1000 ms
CacheMinutes == 5

\* selectedCalendars.length > 0 ? selectedCalendars : ['primary']
calendarsToUse(selected) ==
    IF Len(selected) > 0 THEN selected ELSE << "primary" >>

\* `${dateKey}-${calendarsToUse.join(',')}`: the date and the ids in the
\* order of the list
cacheKey(date, calendars) == << formatDate(date), calendars >>

\* this.data.get(dateKey)
CacheEntry(data, key) == CHOOSE e \in data : e.key = key

\* an eventCache.get that does not look at the timestamp
eventCache_get_noExpiry(data, key, t) ==
    IF ~(\E e \in data : e.key = key)
    THEN [ hit |-> FALSE, events |-> << >>, data |-> data ]
    ELSE [ hit |-> TRUE, events |-> CacheEntry(data, key).events, data |-> data ]

\* eventCache.get read at time t: hit tells whether events came back (an
\* array, empty or not, is truthy), data is the map after the read
eventCache_get(data, key, t) ==
    IF ~(\E e \in data : e.key = key)
    THEN [ hit |-> FALSE, events |-> << >>, data |-> data ]
    ELSE LET cached == CacheEntry(data, key)
             isExpired == t - cached.timestamp > CacheMinutes
         IN  IF isExpired
             THEN [ hit |-> FALSE, events |-> << >>, data |-> data \ {cached} ]
             ELSE [ hit |-> TRUE, events |-> cached.events, data |-> data ]

\* eventCache.set at time t
eventCache_set(data, key, events, t) ==
    { e \in data : e.key # key }
        \cup { [ key |-> key, events |-> events, timestamp |-> t ] }

\* dayEvents.filter(event => event.start.dateTime && event.end.dateTime &&
\* event.status !== 'cancelled')
filteredEvents(dayEvents) ==
    SelectSeq(dayEvents, LAMBDA event : event.dateTime /\ event.status # "cancelled")

RECURSIVE CachedEventsLoop(_, _, _, _, _, _)
\* the loop of fetchCalendarData over the selected dates, at time t: data is
\* the cache after the loop, requested the keys an events request was sent
\* for; the request of a date in failed throws
CachedEventsLoop(data, dates, calendars, calendar, failed, t) ==
    IF dates = << >> THEN [ data |-> data, requested |-> {} ]
    ELSE LET date == Head(dates)
             key == cacheKey(date, calendars)
             cachedEvents == eventCache_get(data, key, t)
             stored == IF cachedEvents.hit \/ date \in failed
                       THEN cachedEvents.data
                       ELSE eventCache_set(cachedEvents.data, key,
                                filteredEvents(getCalendarEvents(calendar, date, date)), t)
             rest == CachedEventsLoop(stored, Tail(dates), calendars, calendar,
                                      failed, t)
         IN  [ data |-> rest.data,
               requested |-> IF cachedEvents.hit THEN rest.requested
                             ELSE {key} \cup rest.requested ]

\* ------------------------------------------------------------------------
\* State
\* ------------------------------------------------------------------------
VARIABLES
    swBusy,       \* busy intervals handed to a sweep, in the order supplied
    swDuration,   \* slot duration handed to a sweep, minutes
    swOp,         \* the operation that was applied: "none", "service", "hook",
                  \* "ics", "groupedICS", "groupedHook", "getAvailableSlots"
    swSlots,      \* the slots the sweep returned
    swFailed,     \* getAvailableSlots: the dates whose events request failed
    swAvail,      \* getAvailableSlots: the list it returned
    importedEvents,       \* Index: events of the imported ICS file
    parentAvailability,   \* Index: availability reported by a view
    parentSelectedSlots,  \* Index: selected slots reported by a view
    selectedDates,        \* ICSCalendarView: selected dates, ascending
    selectedDurations,    \* ICSCalendarView: subset of 15, 30, 60, custom, grouped
    customDuration,       \* ICSCalendarView: custom duration, minutes
    availability,         \* ICSCalendarView: the slots per date on display
    panel,                \* Index: the panel this session works with
    calendarEvents,       \* the events of the user's Google calendar
    isAuthenticated,      \* GoogleCalendarView
    gSelectedDates,       \* GoogleCalendarView: selectedDates, ascending
    gSelectedDurations,   \* GoogleCalendarView: selectedDurations
    gCustomDuration,      \* GoogleCalendarView: customDuration, minutes
    gAvailability,        \* GoogleCalendarView: availability
    gLoading,             \* GoogleCalendarView: loading
    gTimer,               \* GoogleCalendarView: a debounce timeout is pending
    gRuns,                \* GoogleCalendarView: inputs of the fetchCalendarData
                          \* calls that have not finished
    now,                  \* Date.now(), in minutes
    availableCalendars,   \* GoogleCalendarView: ids of the calendar list
    selectedCalendars,    \* GoogleCalendarView: ids in the order they were selected
    eventCache,           \* GoogleCalendarView: eventCache.data, a set of entries
    slotDuration,         \* ICSCalendarView.tsx: "30", "60", "both" or "custom"
    lpPc,                 \* generateSlotsForDuration: "idle", "events", "rest", "done"
    lpDate,               \* generateSlotsForDuration: selectedDate
    lpDuration,           \* generateSlotsForDuration: duration
    lpEvents,             \* generateSlotsForDuration: the blocking events not yet visited
    lpCur,                \* generateSlotsForDuration: currentTime
    lpSlots,              \* generateSlotsForDuration: timeSlots
    tokenStore,           \* localStorage 'google_tokens': << >> or << tokens >>
    oaCalls,              \* getValidAccessToken calls that wait for a refresh response
    oaReturned,           \* the last call of GoogleOAuthService that returned, and its value
    oaIssued              \* number of refresh responses so far

sweepVars == << swBusy, swDuration, swOp, swSlots, swFailed, swAvail >>

parentVars == << parentAvailability, parentSelectedSlots >>

icsVars == << importedEvents, selectedDates, selectedDurations, customDuration,
              availability >>

googleVars == << calendarEvents, isAuthenticated, gSelectedDates,
                 gSelectedDurations, gCustomDuration, gAvailability, gLoading,
                 gTimer, gRuns >>

cacheVars == << now, availableCalendars, selectedCalendars, eventCache >>

selectVars == << slotDuration >>

loopVars == << lpPc, lpDate, lpDuration, lpEvents, lpCur, lpSlots >>

oauthVars == << tokenStore, oaCalls, oaReturned, oaIssued >>

vars == << sweepVars, parentVars, icsVars, panel, googleVars, cacheVars,
           selectVars, loopVars, oauthVars >>

\* state of Index and of an ICSCalendarView that is not mounted
IndexInit ==
    /\ importedEvents = << >>
    /\ parentAvailability = << >>
    /\ parentSelectedSlots = << >>

ICSViewInit ==
    /\ selectedDates = << >>
    /\ selectedDurations = {"30", "60"}
    /\ customDuration = 45
    /\ availability = << >>

\* state of a GoogleCalendarView after a page load
GoogleViewInit ==
    /\ isAuthenticated = FALSE
    /\ gSelectedDates = << >>
    /\ gSelectedDurations = {"grouped"}
    /\ gCustomDuration = 45
    /\ gAvailability = << >>
    /\ gLoading = FALSE
    /\ gTimer = FALSE
    /\ gRuns = {}

\* no generateSlotsForDuration call is under way
LoopIdle ==
    /\ lpPc = "idle"
    /\ lpDate = 0
    /\ lpDuration = 0
    /\ lpEvents = << >>
    /\ lpCur = 0
    /\ lpSlots = << >>

\* GoogleOAuthService with an empty localStorage
OAuthInit ==
    /\ tokenStore = << >>
    /\ oaCalls = {}
    /\ oaReturned = [ call |-> "none", tokens |-> << >>, value |-> << >>,
                     accessToken |-> << >> ]
    /\ oaIssued = 0

\* a page that has just loaded: the clock reads 0
CacheViewInit ==
    /\ now = 0
    /\ availableCalendars = << >>
    /\ selectedCalendars = << >>
    /\ eventCache = {}
    /\ slotDuration = "30"
    /\ LoopIdle
    /\ OAuthInit

SweepIdle ==
    /\ swBusy = << >>
    /\ swDuration = 30
    /\ swOp = "none"
    /\ swSlots = << >>
    /\ swFailed = {}
    /\ swAvail = << >>

\* ------------------------------------------------------------------------
\* The sweeps as operations on one day
\* ------------------------------------------------------------------------
Range(seq) == { seq[i] : i \in DOMAIN seq }

SweepDate == SweepDay * MinutesPerDay

BusyIntervalSet ==
    { [ start |-> SweepDate + a, end |-> SweepDate + b ] :
        << a, b >> \in { p \in BusyMinutes \X BusyMinutes : p[1] < p[2] } }

BusyLists ==
    UNION { [ 1..n -> BusyIntervalSet ] : n \in 0..MaxBusy }

SweepInit ==
    /\ swBusy \in BusyLists
    /\ swDuration \in SweepDurations
    /\ swOp = "none"
    /\ swSlots = << >>
    /\ swFailed = {}
    /\ swAvail = << >>
    /\ IndexInit
    /\ ICSViewInit
    /\ panel = "none"
    /\ calendarEvents = << >>
    /\ GoogleViewInit
    /\ CacheViewInit

\* GoogleCalendarService.generateAvailableSlots on the supplied list
SweepService ==
    /\ swOp = "none"
    /\ swOp' = "service"
    /\ swSlots' = generateAvailableSlots(SweepDate, swBusy, swDuration, DefaultWorkingHours)
    /\ UNCHANGED << swBusy, swDuration, swFailed, swAvail, parentVars, icsVars, panel, selectVars, loopVars, oauthVars, cacheVars,
                    googleVars >>

\* useCalendarSlots.generateSlotsForDuration on the supplied list
SweepHook ==
    /\ swOp = "none"
    /\ swOp' = "hook"
    /\ swSlots' = useCalendarSlots_generateSlotsForDuration(SweepDate, swBusy, swDuration)
    /\ UNCHANGED << swBusy, swDuration, swFailed, swAvail, parentVars, icsVars, panel, selectVars, loopVars, oauthVars, cacheVars,
                    googleVars >>

\* ICSCalendarView.generateSlotsForDuration on the events of the list that
\* generateAvailability hands over: those that meet the window, sorted by
\* start
SweepICS ==
    /\ swOp = "none"
    /\ swOp' = "ics"
    /\ swSlots' = ICS_generateSlotsForDuration(
                      SweepDate, ICSBlockingEvents(swBusy, SweepDate), swDuration)
    /\ UNCHANGED << swBusy, swDuration, swFailed, swAvail, parentVars, icsVars, panel, selectVars, loopVars, oauthVars, cacheVars,
                    googleVars >>

\* the grouped strategy of ICSCalendarView.generateAvailability
SweepGroupedICS ==
    /\ swOp = "none"
    /\ swOp' = "groupedICS"
    /\ swSlots' = ICSGroupFrom(
                      ICS_generateSlotsForDuration(
                          SweepDate, ICSBlockingEvents(swBusy, SweepDate), 30),
                      1, SweepDate)
    /\ UNCHANGED << swBusy, swDuration, swFailed, swAvail, parentVars, icsVars, panel, selectVars, loopVars, oauthVars, cacheVars,
                    googleVars >>

\* useCalendarSlots.generateGroupedSlots on the hook's 30-minute base slots
SweepGroupedHook ==
    /\ swOp = "none"
    /\ swOp' = "groupedHook"
    /\ swSlots' = generateGroupedSlots(
                      useCalendarSlots_generateSlotsForDuration(SweepDate, swBusy, 30),
                      SweepDate)
    /\ UNCHANGED << swBusy, swDuration, swFailed, swAvail, parentVars, icsVars, panel, selectVars, loopVars, oauthVars, cacheVars,
                    googleVars >>

\* the calendar that holds the busy intervals as confirmed timed events
SweepCalendar ==
    [ k \in 1..Len(swBusy) |->
        [ start |-> swBusy[k].start, end |-> swBusy[k].end,
          dateTime |-> TRUE, status |-> "confirmed" ] ] \o << >>

\* the dates requested: the day of the intervals and the day after it
SweepDates == << SweepDate, SweepDate + MinutesPerDay >>

\* GoogleCalendarService.getAvailableSlots for the two dates; the events
\* request of the dates in failed throws
SweepGetAvailableSlots ==
    /\ swOp = "none"
    /\ swOp' = "getAvailableSlots"
    /\ \E failed \in SUBSET Range(SweepDates) :
           /\ swFailed' = failed
           /\ swAvail' = getAvailableSlots(SweepCalendar, SweepDates, swDuration, failed)
    /\ UNCHANGED << swBusy, swDuration, swSlots, parentVars, icsVars, panel, selectVars, loopVars, oauthVars, cacheVars, googleVars >>

SweepNext ==
    \/ SweepService
    \/ SweepHook
    \/ SweepICS
    \/ SweepGroupedICS
    \/ SweepGroupedHook
    \/ SweepGetAvailableSlots

SpecSweep == SweepInit /\ [][SweepNext]_vars

\* ------------------------------------------------------------------------
\* ICSCalendarView inside Index: the operations
\* ------------------------------------------------------------------------
At(day, h, m) == day * MinutesPerDay + h * 60 + m

\* the calendar days offered by the date picker
Days == {1, 2}

PickableDates == { d * MinutesPerDay : d \in Days }

\* every imported file holds one long meeting, from 11:00 of the first day
\* to 15:00 of the second, which leaves two free hours on either day
LongEvent == [ start |-> At(1, 11, 0), end |-> At(2, 15, 0) ]

\* the other events a file may hold: a short one off the half-hour grid, an
\* all-day one, and a quarter of an hour in the second afternoon
OtherEvents ==
    { [ start |-> At(1, 9, 50),  end |-> At(1, 9, 55) ],
      [ start |-> At(1, 0, 0),   end |-> At(2, 0, 0) ],
      [ start |-> At(2, 16, 15), end |-> At(2, 16, 30) ] }

EventLists ==
    { << LongEvent >> \o l :
        l \in { m \in UNION { [ 1..n -> OtherEvents ] : n \in 0..MaxExtraEvents } :
                  \A i, j \in DOMAIN m : i # j => m[i] # m[j] } }

CustomDurationInputs == {45, 20, 125}

DurationKeys == {"15", "30", "60", "custom", "grouped"}

UnknownSlotId == << "unknown" >>

\* ids a click can deliver: the leading slots of every date on display,
\* and an id that no slot carries
ClickableIds(avail) ==
    UNION { { avail[k].slots[n].id :
                n \in 1..Min(MaxToggleIndex, Len(avail[k].slots)) } :
            k \in 1..Len(avail) }
    \cup {UnknownSlotId}

\* the ascending list of a set of dates
RECURSIVE DatesAscending(_)
DatesAscending(S) ==
    IF S = {} THEN << >>
    ELSE LET m == CHOOSE x \in S : \A y \in S : x <= y
         IN  << m >> \o DatesAscending(S \ {m})

\* a generateAvailability that hands the selected flag of the slots on
\* display over to the new slots of the same id
ICSGenerate_keepSelection(events, dates, durations, custom) ==
    LET fresh == ICS_generateAvailability(events, dates, durations, custom)
        off   == { availability[k].slots[n].id :
                     << k, n >> \in { q \in UNION { { << k2, n2 >> :
                                         n2 \in 1..Len(availability[k2].slots) } :
                                         k2 \in 1..Len(availability) } :
                                     ~availability[q[1]].slots[q[2]].selected } }
        availableSlots ==
            [ k \in 1..Len(fresh) |->
                [ date |-> fresh[k].date,
                  slots |-> [ n \in 1..Len(fresh[k].slots) |->
                                [ fresh[k].slots[n] EXCEPT
                                    !.selected = fresh[k].slots[n].id \notin off ] ]
                            \o << >> ] ] \o << >>
    IN  /\ availability' = availableSlots
        /\ parentAvailability' = availableSlots
        /\ parentSelectedSlots' = SelectedSlotsOf(availableSlots)

\* generateAvailability with the given inputs: local state and both callbacks
ICSGenerate(events, dates, durations, custom) ==
    LET availableSlots == ICS_generateAvailability(events, dates, durations, custom)
    IN  /\ availability' = availableSlots
        /\ parentAvailability' = availableSlots
        /\ parentSelectedSlots' = SelectedSlotsOf(availableSlots)

\* Index.handleEventsImported; the view mounts and its effect runs
handleEventsImported(events) ==
    /\ importedEvents = << >>
    /\ importedEvents' = events
    /\ ICSGenerate(events, selectedDates, selectedDurations, customDuration)
    /\ UNCHANGED << selectedDates, selectedDurations, customDuration, sweepVars, panel, selectVars, loopVars, oauthVars, cacheVars, googleVars >>

\* Index.handleClearImportedEvents; the view unmounts and loses its state
handleClearImportedEvents ==
    /\ importedEvents # << >>
    /\ importedEvents' = << >>
    /\ parentAvailability' = << >>
    /\ parentSelectedSlots' = << >>
    /\ selectedDates' = << >>
    /\ selectedDurations' = {"30", "60"}
    /\ customDuration' = 45
    /\ availability' = << >>
    /\ UNCHANGED << sweepVars, panel, selectVars, loopVars, oauthVars, cacheVars, googleVars >>

\* Calendar onSelect (mode "multiple"): a click adds or removes the date
ICS_onSelect(date) ==
    /\ importedEvents # << >>
    /\ LET picked == IF date \in Range(selectedDates)
                     THEN Range(selectedDates) \ {date}
                     ELSE Range(selectedDates) \cup {date}
       IN  /\ selectedDates' = DatesAscending(picked)
           /\ ICSGenerate(importedEvents, selectedDates', selectedDurations,
                          customDuration)
    /\ UNCHANGED << importedEvents, selectedDurations, customDuration, sweepVars, panel, selectVars, loopVars, oauthVars, cacheVars, googleVars >>

\* removeDate
ICS_removeDate(date) ==
    /\ importedEvents # << >>
    /\ date \in Range(selectedDates)
    /\ selectedDates' = SelectSeq(selectedDates, LAMBDA d : ~isSameDay(d, date))
    /\ ICSGenerate(importedEvents, selectedDates', selectedDurations, customDuration)
    /\ UNCHANGED << importedEvents, selectedDurations, customDuration, sweepVars, panel, selectVars, loopVars, oauthVars, cacheVars, googleVars >>

\* toggleDuration
ICS_toggleDuration(duration) ==
    /\ importedEvents # << >>
    /\ selectedDurations' = IF duration \in selectedDurations
                            THEN selectedDurations \ {duration}
                            ELSE selectedDurations \cup {duration}
    /\ ICSGenerate(importedEvents, selectedDates, selectedDurations', customDuration)
    /\ UNCHANGED << importedEvents, selectedDates, customDuration, sweepVars, panel, selectVars, loopVars, oauthVars, cacheVars, googleVars >>

\* the custom duration input's onChange
ICS_setCustomDuration(minutes) ==
    /\ importedEvents # << >>
    /\ "custom" \in selectedDurations
    /\ minutes # customDuration
    /\ customDuration' = minutes
    /\ ICSGenerate(importedEvents, selectedDates, selectedDurations, minutes)
    /\ UNCHANGED << importedEvents, selectedDates, selectedDurations, sweepVars, panel, selectVars, loopVars, oauthVars, cacheVars, googleVars >>

\* toggleSlotSelection
ICS_toggleSlotSelection(slotId) ==
    /\ importedEvents # << >>
    /\ availability' = ToggleIn(availability, slotId)
    /\ parentSelectedSlots' = SelectedSlotsOf(availability')
    /\ UNCHANGED << importedEvents, selectedDates, selectedDurations,
                    customDuration, parentAvailability, sweepVars, panel, selectVars, loopVars, oauthVars,
                    cacheVars, googleVars >>

\* ------------------------------------------------------------------------
\* components/ICSCalendarView.tsx inside Index: the operations
\* ------------------------------------------------------------------------
\* the values of the duration select and of the custom duration input
SlotDurationValues == {"30", "60", "both", "custom"}

ICSViewCustomInputs == {15, 45}

\* generateAvailability: without dates it empties the availability here and
\* in Index and returns; the selected slots of Index are not touched
ICSView_generateAvailability(events, dates, duration, custom) ==
    IF Len(dates) = 0
    THEN /\ availability' = << >>
         /\ parentAvailability' = << >>
         /\ UNCHANGED parentSelectedSlots
    ELSE LET availableSlots == ICSView_availableSlots(events, dates, duration, custom)
         IN  /\ availability' = availableSlots
             /\ parentAvailability' = availableSlots
             /\ parentSelectedSlots' = SelectedSlotsOf(availableSlots)

\* Index.handleEventsImported; the view mounts and its effect runs
ICSView_handleEventsImported(events) ==
    /\ importedEvents = << >>
    /\ importedEvents' = events
    /\ ICSView_generateAvailability(events, selectedDates, slotDuration, customDuration)
    /\ UNCHANGED << selectedDates, selectedDurations, customDuration, slotDuration,
                    sweepVars, panel, googleVars, cacheVars, loopVars, oauthVars >>

\* Index.handleClearImportedEvents; the view unmounts and loses its state
ICSView_handleClearImportedEvents ==
    /\ importedEvents # << >>
    /\ importedEvents' = << >>
    /\ parentAvailability' = << >>
    /\ parentSelectedSlots' = << >>
    /\ selectedDates' = << >>
    /\ slotDuration' = "30"
    /\ customDuration' = 15
    /\ availability' = << >>
    /\ UNCHANGED << selectedDurations, sweepVars, panel, googleVars, cacheVars,
                    loopVars, oauthVars >>

\* Calendar onSelect (mode "multiple"): a click adds or removes the date
ICSView_onSelect(date) ==
    /\ importedEvents # << >>
    /\ LET picked == IF date \in Range(selectedDates)
                     THEN Range(selectedDates) \ {date}
                     ELSE Range(selectedDates) \cup {date}
       IN  /\ selectedDates' = DatesAscending(picked)
           /\ ICSView_generateAvailability(importedEvents, selectedDates',
                                           slotDuration, customDuration)
    /\ UNCHANGED << importedEvents, selectedDurations, customDuration, slotDuration,
                    sweepVars, panel, googleVars, cacheVars, loopVars, oauthVars >>

\* removeDate
ICSView_removeDate(date) ==
    /\ importedEvents # << >>
    /\ date \in Range(selectedDates)
    /\ selectedDates' = SelectSeq(selectedDates, LAMBDA d : ~isSameDay(d, date))
    /\ ICSView_generateAvailability(importedEvents, selectedDates', slotDuration,
                                    customDuration)
    /\ UNCHANGED << importedEvents, selectedDurations, customDuration, slotDuration,
                    sweepVars, panel, googleVars, cacheVars, loopVars, oauthVars >>

handleSlotDurationChange(value) ==
    /\ importedEvents # << >>
    /\ value # slotDuration
    /\ slotDuration' = value
    /\ ICSView_generateAvailability(importedEvents, selectedDates, value,
                                    customDuration)
    /\ UNCHANGED << importedEvents, selectedDates, selectedDurations, customDuration,
                    sweepVars, panel, googleVars, cacheVars, loopVars, oauthVars >>

\* the custom duration input's onChange
ICSView_setCustomDuration(minutes) ==
    /\ importedEvents # << >>
    /\ slotDuration = "custom"
    /\ minutes # customDuration
    /\ customDuration' = minutes
    /\ ICSView_generateAvailability(importedEvents, selectedDates, slotDuration,
                                    minutes)
    /\ UNCHANGED << importedEvents, selectedDates, selectedDurations, slotDuration,
                    sweepVars, panel, googleVars, cacheVars, loopVars, oauthVars >>

\* toggleSlotSelection
ICSView_toggleSlotSelection(slotId) ==
    /\ importedEvents # << >>
    /\ availability' = ToggleIn(availability, slotId)
    /\ parentSelectedSlots' = SelectedSlotsOf(availability')
    /\ UNCHANGED << importedEvents, selectedDates, selectedDurations,
                    customDuration, slotDuration, parentAvailability, sweepVars,
                    panel, googleVars, cacheVars, loopVars, oauthVars >>

\* ------------------------------------------------------------------------
\* GoogleCalendarView inside Index: the operations
\* ------------------------------------------------------------------------
GoogleLongEvent ==
    [ start |-> At(1, 11, 0), end |-> At(2, 15, 0),
      dateTime |-> TRUE, status |-> "confirmed" ]

\* a short meeting off the half-hour grid, an all-day event (it has no
\* dateTime) and a cancelled meeting
GoogleOtherEvents ==
    { [ start |-> At(1, 9, 50),  end |-> At(1, 9, 55),
        dateTime |-> TRUE, status |-> "confirmed" ],
      [ start |-> At(1, 0, 0),   end |-> At(2, 0, 0),
        dateTime |-> FALSE, status |-> "confirmed" ],
      [ start |-> At(2, 16, 15), end |-> At(2, 16, 30),
        dateTime |-> TRUE, status |-> "cancelled" ] }

CalendarContents ==
    { << GoogleLongEvent >> \o l :
        l \in { m \in UNION { [ 1..n -> GoogleOtherEvents ] : n \in 0..MaxExtraEvents } :
                  \A i, j \in DOMAIN m : i # j => m[i] # m[j] } }

\* the duration checkboxes and the dates clicked in the Google panel
GoogleDurationKeys == {"30", "custom"}

GooglePickableDates == { 2 * MinutesPerDay }

\* the inputs a fetchCalendarData closure holds
GoogleInputs ==
    [ dates |-> gSelectedDates, durations |-> gSelectedDurations,
      custom |-> gCustomDuration, calendars |-> selectedCalendars ]

\* The effect on [isAuthenticated, selectedDates, selectedDurations,
\* customDuration, fetchCalendarData, onSelectedSlotsChange, ...]: it runs
\* after every change of an input and after every call of a callback of
\* Index (Index renders again and hands down a new onSelectedSlotsChange).
\* auth and dates are the values after the change; avail, pAvail and pSel
\* are what the handler left in the view and in Index.
GoogleEffect(auth, dates, avail, pAvail, pSel) ==
    IF ~auth \/ dates = << >>
    THEN /\ gTimer' = FALSE
         /\ gAvailability' = << >>
         /\ parentAvailability' = << >>
         /\ parentSelectedSlots' = << >>
    ELSE /\ gTimer' = TRUE
         /\ gAvailability' = avail
         /\ parentAvailability' = pAvail
         /\ parentSelectedSlots' = pSel

\* return from the OAuth redirect: the page loads anew, checkAuthStatus
\* finds a valid token
handleGoogleLogin ==
    /\ ~isAuthenticated
    /\ isAuthenticated' = TRUE
    /\ gSelectedDates' = << >>
    /\ gSelectedDurations' = {"grouped"}
    /\ gCustomDuration' = 45
    /\ gLoading' = FALSE
    /\ gRuns' = {}
    /\ availableCalendars' = << >>
    /\ selectedCalendars' = << >>
    /\ eventCache' = {}
    /\ GoogleEffect(TRUE, << >>, << >>, << >>, << >>)
    /\ UNCHANGED << sweepVars, icsVars, panel, selectVars, loopVars, oauthVars, calendarEvents, now >>

handleGoogleLogout ==
    /\ isAuthenticated
    /\ isAuthenticated' = FALSE
    /\ gSelectedDates' = << >>
    /\ eventCache' = {}
    /\ GoogleEffect(FALSE, << >>, << >>, << >>, parentSelectedSlots)
    /\ UNCHANGED << sweepVars, icsVars, panel, selectVars, loopVars, oauthVars, calendarEvents,
                    gSelectedDurations, gCustomDuration, gLoading, gRuns,
                    now, availableCalendars, selectedCalendars >>

\* Calendar onSelect (mode "multiple"): a click adds or removes the date
Google_onSelect(date) ==
    /\ isAuthenticated
    /\ LET picked == IF date \in Range(gSelectedDates)
                     THEN Range(gSelectedDates) \ {date}
                     ELSE Range(gSelectedDates) \cup {date}
       IN  gSelectedDates' = DatesAscending(picked)
    /\ GoogleEffect(isAuthenticated, gSelectedDates', gAvailability,
                    parentAvailability, parentSelectedSlots)
    /\ UNCHANGED << sweepVars, icsVars, panel, selectVars, loopVars, oauthVars, cacheVars, calendarEvents, isAuthenticated,
                    gSelectedDurations, gCustomDuration, gLoading, gRuns >>

Google_removeDate(date) ==
    /\ isAuthenticated
    /\ ~gLoading
    /\ date \in Range(gSelectedDates)
    /\ gSelectedDates' = SelectSeq(gSelectedDates, LAMBDA d : ~isSameDay(d, date))
    /\ GoogleEffect(isAuthenticated, gSelectedDates', gAvailability,
                    parentAvailability, parentSelectedSlots)
    /\ UNCHANGED << sweepVars, icsVars, panel, selectVars, loopVars, oauthVars, cacheVars, calendarEvents, isAuthenticated,
                    gSelectedDurations, gCustomDuration, gLoading, gRuns >>

Google_toggleDuration(duration) ==
    /\ isAuthenticated
    /\ gSelectedDurations' = IF duration \in gSelectedDurations
                             THEN gSelectedDurations \ {duration}
                             ELSE gSelectedDurations \cup {duration}
    /\ GoogleEffect(isAuthenticated, gSelectedDates, gAvailability,
                    parentAvailability, parentSelectedSlots)
    /\ UNCHANGED << sweepVars, icsVars, panel, selectVars, loopVars, oauthVars, cacheVars, calendarEvents, isAuthenticated,
                    gSelectedDates, gCustomDuration, gLoading, gRuns >>

Google_setCustomDuration(minutes) ==
    /\ isAuthenticated
    /\ "custom" \in gSelectedDurations
    /\ minutes # gCustomDuration
    /\ gCustomDuration' = minutes
    /\ GoogleEffect(isAuthenticated, gSelectedDates, gAvailability,
                    parentAvailability, parentSelectedSlots)
    /\ UNCHANGED << sweepVars, icsVars, panel, selectVars, loopVars, oauthVars, cacheVars, calendarEvents, isAuthenticated,
                    gSelectedDates, gSelectedDurations, gLoading, gRuns >>

\* the debounce timeout fires: fetchCalendarData starts with the inputs of
\* the render that set the timeout, which are the current ones
Google_timeout ==
    /\ gTimer
    /\ gTimer' = FALSE
    /\ gLoading' = TRUE
    /\ gRuns' = gRuns \cup {GoogleInputs}
    /\ UNCHANGED << sweepVars, parentVars, icsVars, panel, selectVars, loopVars, oauthVars, cacheVars, calendarEvents,
                    isAuthenticated, gSelectedDates, gSelectedDurations,
                    gCustomDuration, gAvailability >>

\* a fetchCalendarData whose callbacks do not make the effect run again: what
\* the run computed stays in the view and in Index
fetchCalendarData_noEffect(run, failed) ==
    /\ run \in gRuns
    /\ gRuns' = gRuns \ {run}
    /\ gLoading' = FALSE
    /\ eventCache' = CachedEventsLoop(eventCache, run.dates,
                          calendarsToUse(run.calendars), calendarEvents, failed,
                          now).data
    /\ LET availableSlots ==
               Google_availableSlots(calendarEvents, run.dates, run.durations,
                                     run.custom)
       IN  /\ gAvailability' = availableSlots
           /\ parentAvailability' = availableSlots
           /\ parentSelectedSlots' = SelectedSlotsOf(availableSlots)
    /\ UNCHANGED << sweepVars, icsVars, panel, selectVars, loopVars, oauthVars,
                    calendarEvents, isAuthenticated, gSelectedDates,
                    gSelectedDurations, gCustomDuration, gTimer,
                    now, availableCalendars, selectedCalendars >>

\* a fetchCalendarData call gets its last response and finishes; the events
\* requests of the dates in failed throw
fetchCalendarData(run, failed) ==
    /\ run \in gRuns
    /\ gRuns' = gRuns \ {run}
    /\ gLoading' = FALSE
    /\ LET eventsByDate ==
               CachedEventsLoop(eventCache, run.dates, calendarsToUse(run.calendars),
                                calendarEvents, failed, now)
       IN  eventCache' = eventsByDate.data
    /\ LET availableSlots ==
               Google_availableSlots(calendarEvents, run.dates, run.durations,
                                     run.custom)
       IN  GoogleEffect(isAuthenticated, gSelectedDates, availableSlots,
                        availableSlots, SelectedSlotsOf(availableSlots))
    /\ UNCHANGED << sweepVars, icsVars, panel, selectVars, loopVars, oauthVars, calendarEvents, isAuthenticated,
                    gSelectedDates, gSelectedDurations, gCustomDuration,
                    now, availableCalendars, selectedCalendars >>

\* the ids getCalendarList returns, the primary calendar first
CalendarIds == << "work", "home" >>

\* fetchCalendarList gets its response: the list is stored and the primary
\* calendar is selected
fetchCalendarList ==
    /\ isAuthenticated
    /\ availableCalendars = << >>
    /\ availableCalendars' = CalendarIds
    /\ selectedCalendars' = << CalendarIds[1] >>
    /\ GoogleEffect(isAuthenticated, gSelectedDates, gAvailability,
                    parentAvailability, parentSelectedSlots)
    /\ UNCHANGED << sweepVars, icsVars, panel, selectVars, loopVars, oauthVars, calendarEvents, isAuthenticated,
                    gSelectedDates, gSelectedDurations, gCustomDuration,
                    gLoading, gRuns, now, eventCache >>

\* the calendar selector is on display
CalendarSelectorShown ==
    isAuthenticated /\ Len(availableCalendars) > 0

\* a selected id is removed, another one is appended
toggleCalendar(calendarId) ==
    /\ CalendarSelectorShown
    /\ selectedCalendars' =
           IF calendarId \in Range(selectedCalendars)
           THEN SelectSeq(selectedCalendars, LAMBDA id : id # calendarId)
           ELSE Append(selectedCalendars, calendarId)
    /\ GoogleEffect(isAuthenticated, gSelectedDates, gAvailability,
                    parentAvailability, parentSelectedSlots)
    /\ UNCHANGED << sweepVars, icsVars, panel, selectVars, loopVars, oauthVars, calendarEvents, isAuthenticated,
                    gSelectedDates, gSelectedDurations, gCustomDuration,
                    gLoading, gRuns, now, availableCalendars, eventCache >>

selectAllCalendars ==
    /\ CalendarSelectorShown
    /\ selectedCalendars # availableCalendars
    /\ selectedCalendars' = availableCalendars
    /\ GoogleEffect(isAuthenticated, gSelectedDates, gAvailability,
                    parentAvailability, parentSelectedSlots)
    /\ UNCHANGED << sweepVars, icsVars, panel, selectVars, loopVars, oauthVars, calendarEvents, isAuthenticated,
                    gSelectedDates, gSelectedDurations, gCustomDuration,
                    gLoading, gRuns, now, availableCalendars, eventCache >>

deselectAllCalendars ==
    /\ CalendarSelectorShown
    /\ selectedCalendars # << >>
    /\ selectedCalendars' = << >>
    /\ GoogleEffect(isAuthenticated, gSelectedDates, gAvailability,
                    parentAvailability, parentSelectedSlots)
    /\ UNCHANGED << sweepVars, icsVars, panel, selectVars, loopVars, oauthVars, calendarEvents, isAuthenticated,
                    gSelectedDates, gSelectedDurations, gCustomDuration,
                    gLoading, gRuns, now, availableCalendars, eventCache >>

\* the instants, in minutes, at which the user acts: entries come to be
\* looked up when they are exactly CacheMinutes old and a minute older
Instants == << 0, 1, 6, 7, 12, 13 >>

\* time passes up to the next instant
Tick ==
    \E k \in 1..(Len(Instants) - 1) :
        /\ k <= MaxClock
        /\ now = Instants[k]
        /\ now' = Instants[k + 1]
        /\ UNCHANGED << sweepVars, parentVars, icsVars, panel, selectVars, loopVars, oauthVars, googleVars,
                        availableCalendars, selectedCalendars, eventCache >>

\* the slots are on display while authenticated, with dates, not loading
GoogleSlotsShown ==
    isAuthenticated /\ gSelectedDates # << >> /\ ~gLoading

Google_toggleSlotSelection(slotId) ==
    /\ GoogleSlotsShown
    /\ LET updated == ToggleIn(gAvailability, slotId)
       IN  GoogleEffect(isAuthenticated, gSelectedDates, updated,
                        parentAvailability, SelectedSlotsOf(updated))
    /\ UNCHANGED << sweepVars, icsVars, panel, selectVars, loopVars, oauthVars, cacheVars, calendarEvents, isAuthenticated,
                    gSelectedDates, gSelectedDurations, gCustomDuration,
                    gLoading, gRuns >>

selectAllSlots ==
    /\ GoogleSlotsShown
    /\ LET updated == SetAllSelected(gAvailability, TRUE)
       IN  GoogleEffect(isAuthenticated, gSelectedDates, updated,
                        parentAvailability, SelectedSlotsOf(updated))
    /\ UNCHANGED << sweepVars, icsVars, panel, selectVars, loopVars, oauthVars, cacheVars, calendarEvents, isAuthenticated,
                    gSelectedDates, gSelectedDurations, gCustomDuration,
                    gLoading, gRuns >>

deselectAllSlots ==
    /\ GoogleSlotsShown
    /\ LET updated == SetAllSelected(gAvailability, FALSE)
       IN  GoogleEffect(isAuthenticated, gSelectedDates, updated,
                        parentAvailability, << >>)
    /\ UNCHANGED << sweepVars, icsVars, panel, selectVars, loopVars, oauthVars, cacheVars, calendarEvents, isAuthenticated,
                    gSelectedDates, gSelectedDurations, gCustomDuration,
                    gLoading, gRuns >>

\* ------------------------------------------------------------------------
\* The application: a session works with one of the two panels
\* ------------------------------------------------------------------------
Init ==
    /\ SweepIdle
    /\ IndexInit
    /\ ICSViewInit
    /\ GoogleViewInit
    /\ CacheViewInit
    /\ \/ panel = "ics" /\ calendarEvents = << >>
       \/ panel = "google" /\ calendarEvents \in CalendarContents

ICSNext ==
    \/ \E events \in EventLists : handleEventsImported(events)
    \/ handleClearImportedEvents
    \/ \E date \in PickableDates : ICS_onSelect(date)
    \/ \E date \in PickableDates : ICS_removeDate(date)
    \/ \E duration \in DurationKeys : ICS_toggleDuration(duration)
    \/ \E minutes \in CustomDurationInputs : ICS_setCustomDuration(minutes)
    \/ \E slotId \in ClickableIds(availability) : ICS_toggleSlotSelection(slotId)

GoogleNext ==
    \/ handleGoogleLogin
    \/ handleGoogleLogout
    \/ gRuns = {} /\ \E date \in GooglePickableDates : Google_onSelect(date)
    \/ gRuns = {} /\ \E date \in GooglePickableDates : Google_removeDate(date)
    \/ gRuns = {} /\ \E duration \in GoogleDurationKeys : Google_toggleDuration(duration)
    \/ gRuns = {} /\ \E minutes \in CustomDurationInputs : Google_setCustomDuration(minutes)
    \/ Cardinality(gRuns) < MaxRuns /\ Google_timeout
    \/ \E run \in gRuns : fetchCalendarData(run, {})
    \/ \E slotId \in ClickableIds(gAvailability) : Google_toggleSlotSelection(slotId)
    \/ selectAllSlots
    \/ deselectAllSlots

Next ==
    \/ panel = "ics" /\ ICSNext
    \/ panel = "google" /\ GoogleNext

Spec == Init /\ [][Next]_vars

\* ------------------------------------------------------------------------
\* The Google panel with its calendar selector and the event cache, as the
\* minutes pass
\* ------------------------------------------------------------------------
CacheInit ==
    /\ SweepIdle
    /\ IndexInit
    /\ ICSViewInit
    /\ GoogleViewInit
    /\ CacheViewInit
    /\ panel = "google"
    /\ calendarEvents = << GoogleLongEvent >>

CacheNext ==
    \/ handleGoogleLogin
    \/ handleGoogleLogout
    \/ fetchCalendarList
    \/ gRuns = {} /\ \E calendarId \in Range(CalendarIds) : toggleCalendar(calendarId)
    \/ gRuns = {} /\ selectAllCalendars
    \/ gRuns = {} /\ deselectAllCalendars
    \/ gRuns = {} /\ \E date \in GooglePickableDates : Google_onSelect(date)
    \/ Cardinality(gRuns) < MaxRuns /\ Google_timeout
    \/ \E run \in gRuns : \E failed \in SUBSET Range(run.dates) :
           fetchCalendarData(run, failed)
    \/ Tick

SpecCache == CacheInit /\ [][CacheNext]_vars

\* ------------------------------------------------------------------------
\* The Google panel whose inputs change while fetchCalendarData runs
\* ------------------------------------------------------------------------
RaceNext ==
    \/ handleGoogleLogin
    \/ handleGoogleLogout
    \/ \E date \in GooglePickableDates : Google_onSelect(date)
    \/ \E duration \in GoogleDurationKeys : Google_toggleDuration(duration)
    \/ Cardinality(gRuns) <= MaxRuns /\ Google_timeout
    \/ \E run \in gRuns : fetchCalendarData(run, {})

SpecRace == CacheInit /\ [][RaceNext]_vars

\* ------------------------------------------------------------------------
\* ICSCalendarView.generateSlotsForDuration, one loop iteration at a time
\* ------------------------------------------------------------------------
\* what Number(e.target.value) of the custom duration input can be: 0 for an
\* emptied field, a negative number, numbers inside and outside 5..120
LoopDurations == {0, -5, 5, 45, 125}

\* generateAvailability in custom mode calls the sweep for a selected date
LoopInit ==
    /\ SweepIdle
    /\ IndexInit
    /\ ICSViewInit
    /\ GoogleViewInit
    /\ now = 0
    /\ availableCalendars = << >>
    /\ selectedCalendars = << >>
    /\ eventCache = {}
    /\ slotDuration = "custom"
    /\ OAuthInit
    /\ panel = "none"
    /\ calendarEvents = << >>
    /\ lpPc = "run"
    /\ lpDate \in PickableDates
    /\ lpDuration \in LoopDurations
    /\ \E events \in EventLists : lpEvents = ICSBlockingEvents(events, lpDate)
    /\ lpCur = setHours(lpDate, ICSDayStartHour)
    /\ lpSlots = << >>

\* the event the for loop is at, clipped to the day
LoopEventStart == Max(Head(lpEvents).start, setHours(lpDate, ICSDayStartHour))

LoopEventEnd == Min(Head(lpEvents).end, setHours(lpDate, ICSDayEndHour))

\* where the while loop under way stops
LoopLimit ==
    IF lpEvents # << >> THEN LoopEventStart ELSE setHours(lpDate, ICSDayEndHour)

\* the slot that timeSlots.push gets, labelled with format(.., 'HH:mm')
LoopSlot(cur, slotEnd) ==
    [ ICSSlot(lpDate, cur, slotEnd, lpDuration)
        EXCEPT !.start = formatHHmm(cur), !.end = formatHHmm(slotEnd) ]

\* one iteration of a while loop: a slot is pushed if it has the full
\* duration, currentTime moves on by the duration
LoopStep ==
    /\ lpPc = "run"
    /\ lpCur < LoopLimit
    /\ Len(lpSlots) < MaxLoopSlots
    /\ LET slotEnd == Min(addMinutes(lpCur, lpDuration), LoopLimit)
       IN  lpSlots' = IF ICSFullDuration(lpCur, slotEnd, lpDuration)
                      THEN Append(lpSlots, LoopSlot(lpCur, slotEnd))
                      ELSE lpSlots
    /\ lpCur' = addMinutes(lpCur, lpDuration)
    /\ UNCHANGED << lpPc, lpDate, lpDuration, lpEvents, sweepVars, parentVars,
                    icsVars, panel, googleVars, cacheVars, selectVars, oauthVars >>

\* the while loop before an event is over: "Move current time to after
\* this event" and on to the next event
LoopNextEvent ==
    /\ lpPc = "run"
    /\ lpEvents # << >>
    /\ ~(lpCur < LoopLimit)
    /\ lpCur' = ICSAfterEvent(lpCur, LoopEventEnd)
    /\ lpEvents' = Tail(lpEvents)
    /\ UNCHANGED << lpPc, lpDate, lpDuration, lpSlots, sweepVars, parentVars,
                    icsVars, panel, googleVars, cacheVars, selectVars, oauthVars >>

\* the last while loop is over: return timeSlots
LoopReturn ==
    /\ lpPc = "run"
    /\ lpEvents = << >>
    /\ ~(lpCur < LoopLimit)
    /\ lpPc' = "done"
    /\ UNCHANGED << lpDate, lpDuration, lpEvents, lpCur, lpSlots, sweepVars,
                    parentVars, icsVars, panel, googleVars, cacheVars, selectVars,
                    oauthVars >>

LoopNext == LoopStep \/ LoopNextEvent \/ LoopReturn

\* the call keeps executing as long as it has a statement to execute
SpecLoop == LoopInit /\ [][LoopNext]_vars /\ WF_vars(LoopNext)

\* ------------------------------------------------------------------------
\* services/googleOAuth.ts: GoogleOAuthService over localStorage
\* ------------------------------------------------------------------------
\* fiveMinutes: a token closer than this to its expiry is refreshed
RefreshWindowMinutes == 5

\* expires_in of a token response, in minutes
ExpiresInMinutes == {3, 6, 7}

\* refresh_token is optional in GoogleTokens: absent is << >>
LoginRefreshTokens == { << >>, << "r1" >> }

\* a refresh response may come without refresh_token or with another one
ResponseRefreshTokens == { << >>, << "r2" >> }

\* the token responses of the endpoint: the next access token with a
\* refresh_token of the set
TokenResponses(refreshTokens) ==
    { [ access_token |-> oaIssued + 1, refresh_token |-> r, expires_in |-> e ] :
        r \in refreshTokens, e \in ExpiresInMinutes }

\* the item saveTokens writes: { ...tokens, expires_at: Date.now() + expires_in }
StoredItem(tokens, t) ==
    [ access_token |-> tokens.access_token,
      refresh_token |-> tokens.refresh_token,
      expires_in |-> tokens.expires_in,
      expires_at |-> t + tokens.expires_in ]

\* a read that takes a token for expired only after its expiry
StoredTokensRead_late(store, t) ==
    IF store = << >>
    THEN [ value |-> << >>, store |-> << >> ]
    ELSE IF t > store[1].expires_at
         THEN [ value |-> << >>, store |-> << >> ]
         ELSE [ value |-> store, store |-> store ]

\* getStoredTokens: what it returns (<< >> is null) and what it leaves in
\* localStorage; an expired item is removed by clearTokens
StoredTokensRead(store, t) ==
    IF store = << >>
    THEN [ value |-> << >>, store |-> << >> ]
    ELSE IF t >= store[1].expires_at
         THEN [ value |-> << >>, store |-> << >> ]
         ELSE [ value |-> store, store |-> store ]

\* the test in front of the refresh
NeedsRefresh(tokens, t) ==
    /\ tokens.expires_at # 0
    /\ tokens.expires_at - t < RefreshWindowMinutes
    /\ tokens.refresh_token # << >>

\* the tokens of the response without the refresh token kept
RefreshedTokens_fromResponse(newTokens, tokens) == newTokens

\* { ...newTokens, refresh_token: tokens.refresh_token }
RefreshedTokens(newTokens, tokens) ==
    [ newTokens EXCEPT !.refresh_token = tokens.refresh_token ]

\* GoogleOAuthCallback: oauth.saveTokens(tokens) with the tokens of the
\* code exchange
saveTokens(tokens) ==
    /\ oaIssued < MaxIssued
    /\ tokens \in TokenResponses(LoginRefreshTokens)
    /\ tokenStore' = << StoredItem(tokens, now) >>
    /\ oaIssued' = tokens.access_token
    /\ UNCHANGED << oaCalls, oaReturned, now, sweepVars, parentVars, icsVars,
                    panel, googleVars, availableCalendars, selectedCalendars,
                    eventCache, calendarEvents, selectVars, loopVars >>

\* handleGoogleLogout: oauthService.clearTokens()
clearTokens ==
    /\ tokenStore' = << >>
    /\ UNCHANGED << oaCalls, oaReturned, oaIssued, now, sweepVars, parentVars,
                    icsVars, panel, googleVars, availableCalendars,
                    selectedCalendars, eventCache, calendarEvents, selectVars,
                    loopVars >>

getStoredTokens ==
    /\ LET read == StoredTokensRead(tokenStore, now)
       IN  /\ tokenStore' = read.store
           /\ oaReturned' = [ call |-> "getStoredTokens", tokens |-> tokenStore,
                              value |-> read.value, accessToken |-> << >> ]
    /\ UNCHANGED << oaCalls, oaIssued, now, sweepVars, parentVars, icsVars,
                    panel, googleVars, availableCalendars, selectedCalendars,
                    eventCache, calendarEvents, selectVars, loopVars >>

\* the number of a call that newly waits for its refresh response
FreeCall ==
    CHOOSE k \in 1..MaxRefreshCalls : \A call \in oaCalls : call.n # k

\* getValidAccessToken up to its return or up to the await of the refresh
getValidAccessToken ==
    /\ LET read == StoredTokensRead(tokenStore, now)
       IN  /\ tokenStore' = read.store
           /\ \/ /\ read.value = << >>
                 /\ oaReturned' = [ call |-> "getValidAccessToken",
                                    tokens |-> tokenStore, value |-> << >>,
                                    accessToken |-> << >> ]
                 /\ UNCHANGED oaCalls
              \/ /\ read.value # << >>
                 /\ NeedsRefresh(read.value[1], now)
                 /\ Cardinality(oaCalls) < MaxRefreshCalls
                 /\ oaCalls' = oaCalls \cup
                                   { [ n |-> FreeCall, tokens |-> read.value[1] ] }
                 /\ oaReturned' = [ call |-> "awaiting", tokens |-> tokenStore,
                                    value |-> << >>, accessToken |-> << >> ]
              \/ /\ read.value # << >>
                 /\ ~NeedsRefresh(read.value[1], now)
                 /\ oaReturned' = [ call |-> "getValidAccessToken",
                                    tokens |-> tokenStore, value |-> << >>,
                                    accessToken |-> << read.value[1].access_token >> ]
                 /\ UNCHANGED oaCalls
    /\ UNCHANGED << oaIssued, now, sweepVars, parentVars, icsVars, panel,
                    googleVars, availableCalendars, selectedCalendars, eventCache,
                    calendarEvents, selectVars, loopVars >>

\* the refresh request of a waiting call succeeds: saveTokens with the
\* refresh token kept, return newTokens.access_token
refreshAccessToken_resolves(call, newTokens) ==
    /\ call \in oaCalls
    /\ oaIssued < MaxIssued
    /\ newTokens \in TokenResponses(ResponseRefreshTokens)
    /\ tokenStore' = << StoredItem(RefreshedTokens(newTokens, call.tokens), now) >>
    /\ oaIssued' = newTokens.access_token
    /\ oaCalls' = oaCalls \ {call}
    /\ oaReturned' = [ call |-> "getValidAccessToken", tokens |-> << call.tokens >>,
                       value |-> << >>,
                       accessToken |-> << newTokens.access_token >> ]
    /\ UNCHANGED << now, sweepVars, parentVars, icsVars, panel, googleVars,
                    availableCalendars, selectedCalendars, eventCache,
                    calendarEvents, selectVars, loopVars >>

\* a failed refresh that falls back on the token it has
refreshAccessToken_rejects_fallback(call) ==
    /\ call \in oaCalls
    /\ oaCalls' = oaCalls \ {call}
    /\ oaReturned' = [ call |-> "getValidAccessToken", tokens |-> << call.tokens >>,
                       value |-> << >>,
                       accessToken |-> << call.tokens.access_token >> ]
    /\ UNCHANGED << tokenStore, oaIssued, now, sweepVars, parentVars, icsVars,
                    panel, googleVars, availableCalendars, selectedCalendars,
                    eventCache, calendarEvents, selectVars, loopVars >>

\* the refresh request of a waiting call fails (refreshAccessToken throws):
\* the catch block calls clearTokens and returns null
refreshAccessToken_rejects(call) ==
    /\ call \in oaCalls
    /\ tokenStore' = << >>
    /\ oaCalls' = oaCalls \ {call}
    /\ oaReturned' = [ call |-> "getValidAccessToken", tokens |-> << call.tokens >>,
                       value |-> << >>, accessToken |-> << >> ]
    /\ UNCHANGED << oaIssued, now, sweepVars, parentVars, icsVars, panel,
                    googleVars, availableCalendars, selectedCalendars, eventCache,
                    calendarEvents, selectVars, loopVars >>

ServiceInit ==
    /\ SweepIdle
    /\ IndexInit
    /\ ICSViewInit
    /\ GoogleViewInit
    /\ CacheViewInit
    /\ panel = "none"
    /\ calendarEvents = << >>

ServiceNext ==
    \/ \E tokens \in TokenResponses(LoginRefreshTokens) : saveTokens(tokens)
    \/ clearTokens
    \/ getStoredTokens
    \/ getValidAccessToken
    \/ \E call \in oaCalls :
           \E newTokens \in TokenResponses(ResponseRefreshTokens) :
               refreshAccessToken_resolves(call, newTokens)
    \/ \E call \in oaCalls : refreshAccessToken_rejects(call)
    \/ Tick

SpecService == ServiceInit /\ [][ServiceNext]_vars

\* ------------------------------------------------------------------------
\* Index with the ICS panel of components/ICSCalendarView.tsx
\* ------------------------------------------------------------------------
ICSViewPanelInit ==
    /\ SweepIdle
    /\ IndexInit
    /\ selectedDates = << >>
    /\ selectedDurations = {"30", "60"}
    /\ customDuration = 15
    /\ availability = << >>
    /\ GoogleViewInit
    /\ CacheViewInit
    /\ panel = "icsView"
    /\ calendarEvents = << >>

ICSViewNext ==
    \/ \E events \in EventLists : ICSView_handleEventsImported(events)
    \/ ICSView_handleClearImportedEvents
    \/ \E date \in PickableDates : ICSView_onSelect(date)
    \/ \E date \in PickableDates : ICSView_removeDate(date)
    \/ \E value \in SlotDurationValues : handleSlotDurationChange(value)
    \/ \E minutes \in ICSViewCustomInputs : ICSView_setCustomDuration(minutes)
    \/ \E slotId \in ClickableIds(availability) : ICSView_toggleSlotSelection(slotId)

SpecICSView == ICSViewPanelInit /\ [][ICSViewNext]_vars

\* ------------------------------------------------------------------------
\* Vocabulary of the properties
\* ------------------------------------------------------------------------
SlotIndices == 1..Len(swSlots)

BusyIndices == 1..Len(swBusy)

WindowStart == setHours(SweepDate, 9)

WindowEnd == setHours(SweepDate, 17)

Disjoint(s, b) == s.endTime <= b.start \/ s.startTime >= b.end

NoSlotOverlapsBusy ==
    \A i \in SlotIndices : \A j \in BusyIndices : Disjoint(swSlots[i], swBusy[j])

Overlapping(a, b) == a.start < b.end /\ b.start < a.end

SomeBusyPairOverlaps ==
    \E i, j \in BusyIndices : i # j /\ Overlapping(swBusy[i], swBusy[j])

\* C1: no slot of the service-style sweep (service and hook) overlaps a busy
\* interval of the list it was given.
C1_ServiceNoOverlap ==
    swOp \in {"service", "hook"} => NoSlotOverlapsBusy

\* C2: no slot of the ICS sweep overlaps a blocking event, whatever the
\* sorted list of events (touching, overlapping, nested, outside the window).
C2_ICSNoOverlap ==
    swOp = "ics" => NoSlotOverlapsBusy

\* the ICS sweep ran on overlapping events and still found free slots
C2_Witness ==
    /\ swOp = "ics"
    /\ SomeBusyPairOverlaps
    /\ Len(swSlots) > 0
    /\ \E j \in BusyIndices : swBusy[j].end > WindowEnd

\* --- free gaps of the working window, defined from the busy list ---------
Clip(t) == Min(Max(t, WindowStart), WindowEnd)

GapStartCandidates == {WindowStart} \cup { Clip(swBusy[j].end) : j \in BusyIndices }

GapEndCandidates == {WindowEnd} \cup { Clip(swBusy[j].start) : j \in BusyIndices }

\* [g, h) is a maximal sub-interval of the window that no busy interval meets
IsGap(g, h) ==
    /\ g < h
    /\ \A j \in BusyIndices : ~(swBusy[j].start < h /\ swBusy[j].end > g)
    /\ g = WindowStart \/ \E j \in BusyIndices : swBusy[j].end = g
    /\ h = WindowEnd \/ \E j \in BusyIndices : swBusy[j].start = h

Gaps == { p \in GapStartCandidates \X GapEndCandidates : IsGap(p[1], p[2]) }

SlotsInGap(g, h) ==
    { i \in SlotIndices : g <= swSlots[i].startTime /\ swSlots[i].endTime <= h }

\* C3: for pairwise non-overlapping events the ICS sweep puts exactly
\* floor(D/d) slots into every free gap of D minutes, wherever the gap
\* starts, and none into its last D mod d minutes.
C3_ICSFloorPerGap ==
    (swOp = "ics" /\ ~SomeBusyPairOverlaps) =>
        \A p \in Gaps :
            LET D == p[2] - p[1]
            IN  /\ Cardinality(SlotsInGap(p[1], p[2])) = D \div swDuration
                /\ \A i \in SlotsInGap(p[1], p[2]) :
                       swSlots[i].endTime <= p[2] - (D % swDuration)

\* C4: the ICS sweep subdivides every free gap from the gap's own start g:
\* every slot of the gap starts at g + k*d, and a gap of at least d minutes
\* has a slot that starts at g.
C4_ICSStartsAtGapStart ==
    swOp = "ics" =>
        \A p \in Gaps :
            /\ \A i \in SlotsInGap(p[1], p[2]) :
                   (swSlots[i].startTime - p[1]) % swDuration = 0
            /\ p[2] - p[1] >= swDuration =>
                   \E i \in SlotIndices : swSlots[i].startTime = p[1]

\* C5: with no busy interval every sweep returns floor(window/d) slots, the
\* first at the window start, each next one where the previous one ends.
C5_EmptyBusyCoversWindow ==
    (swBusy = << >> /\ swOp \in {"service", "hook", "ics"}) =>
        /\ Len(swSlots) = (WindowEnd - WindowStart) \div swDuration
        /\ Len(swSlots) > 0 => swSlots[1].startTime = WindowStart
        /\ \A i \in SlotIndices :
               i < Len(swSlots) => swSlots[i + 1].startTime = swSlots[i].endTime

\* the ICS sweep of an empty day with a duration that does not divide it
C5_Witness ==
    /\ swBusy = << >>
    /\ swOp = "ics"
    /\ swDuration = 25
    /\ Len(swSlots) = 19
    /\ swSlots[19].endTime = WindowEnd - 5

\* --- availabilities -------------------------------------------------------
\* the availability of the panel in use
Shown == IF panel = "google" THEN gAvailability ELSE availability

Positions(avail) ==
    UNION { { << k, n >> : n \in 1..Len(avail[k].slots) } : k \in 1..Len(avail) }

SlotAt(avail, pos) == avail[pos[1]].slots[pos[2]]

IdsOf(avail) ==
    [ k \in 1..Len(avail) |->
        [ n \in 1..Len(avail[k].slots) |-> avail[k].slots[n].id ] ]

AllSelected(avail) == \A pos \in Positions(avail) : SlotAt(avail, pos).selected

NoneSelected(avail) == \A pos \in Positions(avail) : ~SlotAt(avail, pos).selected

StrategyTags == {"grouped", "15", "30", "60", "custom"}

\* the id of a slot of ICSCalendarView as a function of tag, date, start
\* and length
ICSIdOf(tag, date, startTime, minutes) ==
    << tag, date \div MinutesPerDay,
       << (startTime % MinutesPerDay) \div 60, startTime % 60 >>, minutes >>

\* the id of a slot of GoogleCalendarView as a function of tag, date, start
\* and length: the fixed and custom strategies name the start on the
\* 12-hour clock and leave the length out
GoogleIdOf(tag, date, startTime, minutes) ==
    IF tag = "grouped"
    THEN ICSIdOf(tag, date, startTime, minutes)
    ELSE LET h == (startTime % MinutesPerDay) \div 60
         IN  << tag, date \div MinutesPerDay,
                << IF h % 12 = 0 THEN 12 ELSE h % 12, startTime % 60,
                   IF h < 12 THEN "AM" ELSE "PM" >> >>

\* C6: the id of every slot on display is a fixed function of its strategy
\* tag, its date, its start time and its length, and the ids on display in
\* ICSCalendarView are, in the same order, those that computing the
\* availability again from the present inputs yields.
C6_IdsAreDeterministic ==
    /\ \A pos \in Positions(availability) :
           LET day  == availability[pos[1]]
               slot == SlotAt(availability, pos)
           IN  /\ slot.id[1] \in StrategyTags
               /\ slot.id = ICSIdOf(slot.id[1], day.date, slot.startTime,
                                    slot.endTime - slot.startTime)
    /\ \A pos \in Positions(gAvailability) :
           LET day  == gAvailability[pos[1]]
               slot == SlotAt(gAvailability, pos)
           IN  /\ slot.id[1] \in StrategyTags
               /\ slot.id = GoogleIdOf(slot.id[1], day.date, slot.startTime,
                                       slot.endTime - slot.startTime)
    /\ IdsOf(availability)
         = IdsOf(ICS_generateAvailability(importedEvents, selectedDates,
                                          selectedDurations, customDuration))

\* two dates on display with all five strategies, one slot toggled off
C6_Witness ==
    /\ Len(availability) = 2
    /\ \A tag \in StrategyTags :
           \E pos \in Positions(availability) : SlotAt(availability, pos).id[1] = tag
    /\ ~AllSelected(availability)

\* --- selection ------------------------------------------------------------
SameShape(before, after) ==
    /\ Len(after) = Len(before)
    /\ \A k \in 1..Len(before) :
           /\ after[k].date = before[k].date
           /\ Len(after[k].slots) = Len(before[k].slots)

Flipped(slot) == [ slot EXCEPT !.selected = ~slot.selected ]

\* after is before with the slot of that id flipped and nothing else touched
TogglePost(before, after, slotId) ==
    /\ SameShape(before, after)
    /\ Cardinality({ pos \in Positions(before) : SlotAt(before, pos).id = slotId }) <= 1
    /\ \A pos \in Positions(before) :
           SlotAt(after, pos) = IF SlotAt(before, pos).id = slotId
                                THEN Flipped(SlotAt(before, pos))
                                ELSE SlotAt(before, pos)
    /\ (\A pos \in Positions(before) : SlotAt(before, pos).id # slotId)
           => after = before

\* C7: toggleSlotSelection(slotId) flips the selected flag of the one slot
\* whose id is slotId and leaves every other slot, every date and the order
\* as they were; with an id that no slot carries the availability stays as
\* it is.
C7_ToggleFlipsOnlyThatSlot ==
    [][ /\ \A slotId \in ClickableIds(availability) :
               ICS_toggleSlotSelection(slotId)
                   => TogglePost(availability, availability', slotId)
        /\ \A slotId \in ClickableIds(gAvailability) :
               Google_toggleSlotSelection(slotId)
                   => TogglePost(gAvailability, gAvailability', slotId) ]_vars

\* two dates on display, slots of several strategies, and exactly one slot,
\* of the second date, toggled off
C7_Witness ==
    /\ Len(availability) = 2
    /\ Cardinality({ pos \in Positions(availability) :
                       ~SlotAt(availability, pos).selected }) = 1
    /\ \E pos \in Positions(availability) :
           pos[1] = 2 /\ ~SlotAt(availability, pos).selected
    /\ Cardinality({ SlotAt(availability, pos).id[1] :
                       pos \in Positions(availability) }) >= 2

\* after is before with every selected flag set to value
SetAllPost(before, after, value) ==
    /\ SameShape(before, after)
    /\ \A pos \in Positions(before) :
           SlotAt(after, pos) = [ SlotAt(before, pos) EXCEPT !.selected = value ]

\* C8: selectAllSlots sets selected to true and deselectAllSlots to false on
\* every slot on display and changes nothing else of the availability;
\* applied to an availability that is already all selected (all unselected)
\* it leaves the availability as it is.
C8_SelectAllDeselectAll ==
    [][ /\ selectAllSlots =>
               /\ SetAllPost(gAvailability, gAvailability', TRUE)
               /\ AllSelected(gAvailability) => gAvailability' = gAvailability
        /\ deselectAllSlots =>
               /\ SetAllPost(gAvailability, gAvailability', FALSE)
               /\ NoneSelected(gAvailability) => gAvailability' = gAvailability ]_vars

\* every slot of the Google panel is off, more slots than single clicks reach
C8_Witness ==
    /\ panel = "google"
    /\ Cardinality(Positions(gAvailability)) > MaxToggleIndex + 1
    /\ NoneSelected(gAvailability)
    /\ parentSelectedSlots = << >>

\* the days of avail that have a selected slot
DaysWithSelection(avail) ==
    { k \in 1..Len(avail) : \E n \in 1..Len(avail[k].slots) : avail[k].slots[n].selected }

\* the selected slots of day k
SelectedOfDay(avail, k) ==
    { n \in 1..Len(avail[k].slots) : avail[k].slots[n].selected }

\* C9: the selected slots reported to Index are, date by date and in the
\* order of the availability on display, exactly the slots with selected =
\* true, and no entry stands for a date without a selected slot.
C9_ProjectionIsTheSelectedSlots ==
    /\ \A i \in 1..Len(parentSelectedSlots) : Len(parentSelectedSlots[i].slots) > 0
    /\ Len(parentSelectedSlots) = Cardinality(DaysWithSelection(Shown))
    /\ \A k \in DaysWithSelection(Shown) :
           LET i     == Cardinality({ k2 \in DaysWithSelection(Shown) : k2 <= k })
               entry == parentSelectedSlots[i]
           IN  /\ entry.date = Shown[k].date
               /\ Len(entry.slots) = Cardinality(SelectedOfDay(Shown, k))
               /\ \A n \in SelectedOfDay(Shown, k) :
                      entry.slots[Cardinality({ n2 \in SelectedOfDay(Shown, k) : n2 <= n })]
                          = Shown[k].slots[n]

\* two dates on display, the first without a selected slot, the second with
\* selected slots on either side of an unselected one
C9_Witness ==
    /\ Len(availability) = 2
    /\ DaysWithSelection(availability) = {2}
    /\ Len(parentSelectedSlots) = 1
    /\ \E n \in 2..Len(availability[2].slots) :
           /\ ~availability[2].slots[n].selected
           /\ availability[2].slots[n - 1].selected
           /\ n + 1 <= Len(availability[2].slots)

\* a change of the dates, the strategies or the custom duration
ICSInputsChange ==
    << selectedDates, selectedDurations, customDuration >>'
        # << selectedDates, selectedDurations, customDuration >>

\* C10: the availability that a recomputation leaves behind has every slot
\* selected, whatever had been toggled off before: in ICSCalendarView after
\* every change of the dates, the strategies or the custom duration, in
\* GoogleCalendarView when the fetchCalendarData call that such a change
\* started finishes.
C10_RecomputationSelectsAll ==
    [][ /\ (panel = "ics" /\ ICSInputsChange) => AllSelected(availability')
        /\ \A run \in gRuns :
               fetchCalendarData(run, {}) => AllSelected(gAvailability') ]_vars

\* a fetchCalendarData call is under way while a slot on display is off, and
\* the call will bring a slot of the same id
C10_Witness ==
    \E run \in gRuns :
        \E pos \in Positions(gAvailability) :
            /\ ~SlotAt(gAvailability, pos).selected
            /\ \E q \in Positions(Google_availableSlots(calendarEvents, run.dates,
                                                       run.durations, run.custom)) :
                   SlotAt(Google_availableSlots(calendarEvents, run.dates,
                                                run.durations, run.custom), q).id
                       = SlotAt(gAvailability, pos).id

\* --- grouped slots ----------------------------------------------------------
\* the slots that meet the stretch [g, h)
SlotsMeeting(g, h) ==
    { i \in SlotIndices : swSlots[i].startTime < h /\ swSlots[i].endTime > g }

\* C11: in grouped mode every free block of N contiguous half-hours, wherever
\* it starts, yields exactly one grouped slot, which spans the block from
\* its start to its end (N*30 minutes) and is merged with nothing else.
C11_GroupedBlockIsOneSlot ==
    swOp \in {"groupedICS", "groupedHook"} =>
        \A p \in Gaps :
            (p[2] - p[1]) % 30 = 0 =>
                /\ Cardinality(SlotsMeeting(p[1], p[2])) = 1
                /\ \A i \in SlotsMeeting(p[1], p[2]) :
                       /\ swSlots[i].startTime = p[1]
                       /\ swSlots[i].endTime = p[2]

\* --- order of the slots of a date -------------------------------------------
\* the place of a strategy in the order in which the lists are concatenated
TagRank(tag) ==
    CASE tag = "grouped" -> 0
      [] tag = "15"      -> 1
      [] tag = "30"      -> 2
      [] tag = "60"      -> 3
      [] tag = "custom"  -> 4

SortedWithTies(avail) ==
    \A k \in 1..Len(avail) :
        \A n \in 1..(Len(avail[k].slots) - 1) :
            LET a == avail[k].slots[n]
                b == avail[k].slots[n + 1]
            IN  /\ a.startTime <= b.startTime
                /\ a.startTime = b.startTime => TagRank(a.id[1]) <= TagRank(b.id[1])

\* C12: the slots of every date on display ascend by start time, and slots
\* of one start stand in the order grouped, 15, 30, 60, custom.
C12_SortedGroupedFixedCustom ==
    SortedWithTies(availability) /\ SortedWithTies(gAvailability)

\* a date of ICSCalendarView shows slots of all five strategies that start
\* at the same instant
C12_Witness ==
    \E k \in 1..Len(availability) :
        \E t \in { availability[k].slots[n].startTime : n \in 1..Len(availability[k].slots) } :
            { availability[k].slots[n].id[1] :
                n \in { m \in 1..Len(availability[k].slots) :
                          availability[k].slots[m].startTime = t } } = StrategyTags

\* --- the custom strategy ----------------------------------------------------
CustomSlotsOf(avail) ==
    { pos \in Positions(avail) : SlotAt(avail, pos).id[1] = "custom" }

\* C13: in GoogleCalendarView every slot of the custom strategy that a
\* fetchCalendarData call leaves on display is exactly as long as the
\* customDuration the call worked with.
C13_GoogleCustomSlotsHaveCustomLength ==
    [][ \A run \in gRuns :
            fetchCalendarData(run, {}) =>
                \A pos \in CustomSlotsOf(gAvailability') :
                    SlotAt(gAvailability', pos).endTime
                    - SlotAt(gAvailability', pos).startTime = run.custom ]_vars

\* the values the custom strategy accepts, minutes
ValidCustomMinutes == 5..120

\* C14: a computation of custom slots with a custom duration outside 5..120
\* ends in an error and leaves no slot list: in ICSCalendarView after every
\* step that leaves custom selected with such a value, in GoogleCalendarView
\* when a fetchCalendarData call with such a value finishes.
C14_InvalidCustomYieldsNoSlots ==
    [][ /\ ( /\ panel = "ics"
             /\ importedEvents' # << >>
             /\ selectedDates' # << >>
             /\ "custom" \in selectedDurations'
             /\ customDuration' \notin ValidCustomMinutes )
           => availability' = << >>
        /\ \A run \in gRuns :
               ( /\ fetchCalendarData(run, {})
                 /\ "custom" \in run.durations
                 /\ run.custom \notin ValidCustomMinutes )
               => gAvailability' = << >> ]_vars

\* --- getAvailableSlots ------------------------------------------------------
\* C15: getAvailableSlots returns one entry per requested date, in the order
\* of the request, also for a date without a free slot.
C15_OneEntryPerRequestedDate ==
    (swOp = "getAvailableSlots" /\ swFailed = {}) =>
        /\ Len(swAvail) = Len(SweepDates)
        /\ \A k \in 1..Len(SweepDates) : swAvail[k].date = SweepDates[k]

\* C16: a failing events request for one date does not end the batch:
\* getAvailableSlots returns, for every other date, what it returns for that
\* date when no request fails.
C16_FailedDateDoesNotAbort ==
    swOp = "getAvailableSlots" =>
        swAvail = SelectSeq(
                      getAvailableSlots(SweepCalendar, SweepDates, swDuration, {}),
                      LAMBDA entry : entry.date \notin swFailed)

\* the request of the first date failed, the second date came back with its
\* slots
C16_Witness ==
    /\ swOp = "getAvailableSlots"
    /\ swFailed = { SweepDates[1] }
    /\ swBusy # << >>
    /\ Len(swAvail) = 1
    /\ swAvail[1].date = SweepDates[2]
    /\ Len(swAvail[1].slots) = (WindowEnd - WindowStart) \div swDuration

\* --- order of the busy intervals ---------------------------------------------
\* the lists that hold the elements of seq in another order
PermutationsOf(seq) ==
    { [ i \in 1..Len(seq) |-> seq[f[i]] ] \o << >> :
        f \in { g \in [ 1..Len(seq) -> 1..Len(seq) ] :
                  \A i, j \in 1..Len(seq) : i # j => g[i] # g[j] } }

\* C17: the service-style sweep returns the same slots for every order in
\* which the same busy intervals are supplied.
C17_ServiceOrderIndependent ==
    /\ swOp = "service" =>
           \A perm \in PermutationsOf(swBusy) :
               generateAvailableSlots(SweepDate, perm, swDuration,
                                      DefaultWorkingHours) = swSlots
    /\ swOp = "hook" =>
           \A perm \in PermutationsOf(swBusy) :
               useCalendarSlots_generateSlotsForDuration(SweepDate, perm,
                                                         swDuration) = swSlots

\* --- the slots and the working window ----------------------------------------
\* C18: every slot that a sweep emits for the duration d lies inside the
\* working window, workStart <= startTime < endTime <= workEnd, and is
\* exactly d minutes long, whatever intervals reach before or behind the
\* window.
C18_SlotsInsideWindowOfLengthD ==
    swOp \in {"service", "hook", "ics"} =>
        \A i \in SlotIndices :
            /\ WindowStart <= swSlots[i].startTime
            /\ swSlots[i].startTime < swSlots[i].endTime
            /\ swSlots[i].endTime <= WindowEnd
            /\ swSlots[i].endTime - swSlots[i].startTime = swDuration

\* the ICS sweep found slots off the grid although one event begins before
\* the window and another lies behind it
C18_Witness ==
    /\ swOp = "ics"
    /\ \E j \in BusyIndices :
           swBusy[j].start < WindowStart /\ swBusy[j].end > WindowStart
    /\ \E j \in BusyIndices : swBusy[j].start > WindowEnd
    /\ Len(swSlots) > 0
    /\ (swSlots[Len(swSlots)].startTime - WindowStart) % swDuration # 0

\* --- the event cache ----------------------------------------------------------
\* the entries that are at most CacheMinutes old
FreshEntries == { e \in eventCache : now - e.timestamp <= CacheMinutes }

\* two cache keys of the same date and the same set of calendar ids
SameDateAndCalendarSet(k1, k2) ==
    k1[1] = k2[1] /\ Range(k1[2]) = Range(k2[2])

\* C19: the event cache is keyed by the date and the set of calendar ids:
\* a fetchCalendarData that finds an entry less than 5 minutes old for the
\* same date and the same set of selected calendars sends no events
\* request for that date, whatever the order in which toggleCalendar
\* selected the calendars.
C19_SameCalendarSetUsesOneFetch ==
    [][ \A run \in gRuns : \A failed \in SUBSET Range(run.dates) :
            fetchCalendarData(run, failed) =>
                \A k \in 1..Len(run.dates) :
                    LET key == cacheKey(run.dates[k], calendarsToUse(run.calendars))
                        loop == CachedEventsLoop(eventCache, run.dates,
                                    calendarsToUse(run.calendars), calendarEvents,
                                    failed, now)
                    IN  (\E e \in FreshEntries : SameDateAndCalendarSet(e.key, key))
                            => key \notin loop.requested ]_vars

\* the keys of the entries and one key that was never stored
CacheKeysRead ==
    { e.key : e \in eventCache } \cup { cacheKey(0, << "primary" >>) }

\* what eventCache.get(key) gives when it is called in this state
GetNow(key) == eventCache_get(eventCache, key, now)

\* C20: eventCache.get never returns events that were stored more than 5
\* minutes earlier: a read of an expired entry yields null and removes the
\* entry, a read of a younger one returns what was stored; handleGoogleLogout
\* empties the cache, and an empty cache answers null to every get until
\* fetchCalendarData stores events again.
C20_CacheExpiresAndLogoutClears ==
    [][ /\ \A key \in CacheKeysRead :
              LET got == GetNow(key)
              IN  /\ got.hit =>
                         \E e \in FreshEntries :
                             e.key = key /\ got.events = e.events
                  /\ (\E e \in eventCache \ FreshEntries : e.key = key) =>
                         /\ ~got.hit
                         /\ \A e \in got.data : e.key # key
                  /\ (\E e \in FreshEntries : e.key = key) => got.hit
        /\ \A run \in gRuns : \A failed \in SUBSET Range(run.dates) :
              fetchCalendarData(run, failed) =>
                  \A k \in 1..Len(run.dates) :
                      \A e \in eventCache' :
                          e.key = cacheKey(run.dates[k], calendarsToUse(run.calendars))
                              => now - e.timestamp <= CacheMinutes
        /\ handleGoogleLogout =>
              \A key \in CacheKeysRead :
                  ~eventCache_get(eventCache', key, now').hit
        /\ (eventCache = {} /\ eventCache' # {}) =>
              \E run \in gRuns : \E failed \in SUBSET Range(run.dates) :
                  fetchCalendarData(run, failed) ]_vars

\* the cache holds an entry older than five minutes and one exactly five
\* minutes old
C20_Witness ==
    /\ \E e \in eventCache : now - e.timestamp > CacheMinutes
    /\ \E e \in eventCache : now - e.timestamp = CacheMinutes

\* --- the debounce --------------------------------------------------------------
\* a change of an input of the Google panel: dates, durations, custom
\* duration or calendars
GoogleInputsChange == GoogleInputs' # GoogleInputs

\* C21: recomputation in GoogleCalendarView is debounced: a change of the
\* inputs leaves one timeout pending, the one of the latest change, and
\* fetchCalendarData is started exactly once for a burst of changes: when
\* the run for the latest inputs has finished and nothing has changed since
\* it started, no further timeout is pending.
C21_DebouncedFetchStartsOnce ==
    [][ /\ (GoogleInputsChange /\ isAuthenticated' /\ gSelectedDates' # << >>)
              => gTimer'
        /\ \A run \in gRuns :
              (fetchCalendarData(run, {}) /\ run = GoogleInputs /\ gRuns' = {})
                  => ~gTimer' ]_vars

\* --- the ICS panel without dates ----------------------------------------------
\* C22: whenever the selected dates of the ICS view become empty,
\* generateAvailability reports an empty availability and an empty list of
\* selected slots to Index: no slot that was selected before stays in the
\* state of Index.
C22_NoDatesClearsParent ==
    [][ (selectedDates # << >> /\ selectedDates' = << >>) =>
            /\ availability' = << >>
            /\ parentAvailability' = << >>
            /\ parentSelectedSlots' = << >> ]_vars

\* --- runs of fetchCalendarData that overlap ----------------------------------
\* the availability of the inputs the Google panel holds now
LatestAvailability ==
    IF isAuthenticated /\ gSelectedDates # << >>
    THEN Google_availableSlots(calendarEvents, gSelectedDates, gSelectedDurations,
                               gCustomDuration)
    ELSE << >>

\* C23: a fetchCalendarData run that was superseded by newer inputs is
\* cancelled or ignored: when the last run in flight finishes and the view
\* already holds the availability of the latest inputs, the view and Index
\* keep the availability and the selected slots of the latest inputs.
C23_SupersededRunIsIgnored ==
    [][ \A run \in gRuns :
            ( /\ fetchCalendarData(run, {})
              /\ gRuns' = {}
              /\ gAvailability = LatestAvailability )
            => /\ gAvailability' = LatestAvailability
               /\ parentAvailability' = LatestAvailability
               /\ parentSelectedSlots' = SelectedSlotsOf(LatestAvailability) ]_vars

C25_EveryIterationAdvances == [][LoopStep => lpCur' > lpCur]_vars

\* every call of generateSlotsForDuration returns
LoopTerminates == <>(lpPc = "done")

\* with a duration of 0 or less an iteration leaves the loop condition true
LoopNonPositiveStaysInLoop ==
    [][(LoopStep /\ lpDuration <= 0) => (lpCur' <= lpCur /\ lpCur' < LoopLimit')]_vars

\* the sweep as a loop returns what the sweep as a function gives
LoopAgreesWithSweep ==
    (lpPc = "done" /\ lpDuration > 0) =>
        \E events \in EventLists :
            lpSlots = ICSView_generateSlotsForDuration(
                          lpDate, ICSBlockingEvents(events, lpDate), lpDuration)

\* a positive custom duration always comes to the return
LoopPositiveTerminates == (lpDuration > 0) => <>(lpPc = "done")

\* a duration of 0 or less never comes to the return
LoopNonPositiveRuns == (lpDuration <= 0) => (lpPc = "run")

\* --- slot ids ------------------------------------------------------------------
\* no two slots of the availability carry the same id
IdsUnique(avail) ==
    \A p \in Positions(avail), q \in Positions(avail) :
        SlotAt(avail, p).id = SlotAt(avail, q).id => p = q

\* the positions whose slot is not what it was
ChangedPositions(before, after) ==
    { pos \in Positions(before) : SlotAt(after, pos) # SlotAt(before, pos) }

\* C26: in every availability no two slots, across all dates and all
\* strategies, share an id; hence toggleSlotSelection(id) changes the
\* selected flag of at most one slot.
C26_IdsAreUnique ==
    [][ /\ IdsUnique(availability')
        /\ IdsUnique(gAvailability')
        /\ \A slotId \in ClickableIds(availability) :
               ICS_toggleSlotSelection(slotId)
                   => Cardinality(ChangedPositions(availability, availability')) <= 1
        /\ \A slotId \in ClickableIds(gAvailability) :
               Google_toggleSlotSelection(slotId)
                   => Cardinality(ChangedPositions(gAvailability, gAvailability')) <= 1 ]_vars

\* two strategies offer a slot with the same start on the same date, in the
\* ICS panel and in the Google panel
SameStartTwice(avail) ==
    \E p \in Positions(avail), q \in Positions(avail) :
        /\ p # q
        /\ SlotAt(avail, p).startTime = SlotAt(avail, q).startTime
        /\ SlotAt(avail, p).endTime = SlotAt(avail, q).endTime

C26_Witness ==
    \/ panel = "ics" /\ Len(availability) > 1 /\ SameStartTwice(availability)
    \/ panel = "google" /\ SameStartTwice(gAvailability)

\* --- grouped slots -------------------------------------------------------------
\* the 30-minute base slots the grouping of the sweep step was given
GroupedBaseSlots ==
    IF swOp = "groupedICS"
    THEN ICS_generateSlotsForDuration(
             SweepDate, ICSBlockingEvents(swBusy, SweepDate), 30)
    ELSE useCalendarSlots_generateSlotsForDuration(SweepDate, swBusy, 30)

\* the minutes a slot list covers
MinutesOf(slots) ==
    UNION { slots[k].startTime .. (slots[k].endTime - 1) : k \in 1..Len(slots) }

\* C27: for every sorted list of 30-minute base slots generateGroupedSlots
\* returns grouped slots that are pairwise disjoint, sorted by start, none
\* ending exactly where another begins, whose union covers exactly the time
\* of the base slots, each with a length that is a positive multiple of 30.
C27_GroupedSlotsPartitionBase ==
    swOp \in {"groupedICS", "groupedHook"} =>
        /\ \A i \in 1..Len(swSlots), j \in 1..Len(swSlots) :
               i < j => swSlots[i].endTime < swSlots[j].startTime
        /\ MinutesOf(swSlots) = MinutesOf(GroupedBaseSlots)
        /\ \A k \in 1..Len(swSlots) :
               /\ swSlots[k].endTime - swSlots[k].startTime > 0
               /\ (swSlots[k].endTime - swSlots[k].startTime) % 30 = 0

\* the hook groups base slots that do not start on the half hour into
\* several grouped slots, one of them of more than one base slot
C27_Witness ==
    /\ swOp = "groupedHook"
    /\ Len(swSlots) >= 2
    /\ Len(GroupedBaseSlots) > Len(swSlots)
    /\ \E k \in 1..Len(swSlots) :
           /\ swSlots[k].startTime % 30 # 0
           /\ swSlots[k].endTime - swSlots[k].startTime >= 60

\* --- stored tokens -------------------------------------------------------------
\* the item in localStorage has reached its expiry
StoreExpired == tokenStore # << >> /\ tokenStore[1].expires_at <= now

\* C28: GoogleOAuthService never hands out an expired token: getStoredTokens
\* and getValidAccessToken return null whenever the stored expires_at is at
\* or before the current time, such a read removes the stored tokens, and
\* the store stays empty, every read returning null, until saveTokens is
\* called again.
C28_ExpiredTokenIsNeverReturned ==
    [][ /\ ((getStoredTokens \/ getValidAccessToken)
              /\ (StoreExpired \/ tokenStore = << >>))
               => /\ oaReturned'.value = << >>
                  /\ oaReturned'.accessToken = << >>
                  /\ tokenStore' = << >>
        /\ (tokenStore = << >> /\ tokenStore' # << >>)
               => \/ \E tokens \in TokenResponses(LoginRefreshTokens) :
                        saveTokens(tokens)
                  \/ \E call \in oaCalls :
                        \E newTokens \in TokenResponses(ResponseRefreshTokens) :
                            refreshAccessToken_resolves(call, newTokens)
        /\ (getStoredTokens /\ oaReturned'.value # << >>)
               => oaReturned'.value[1].expires_at > now
        /\ ((getValidAccessToken \/ \E call \in oaCalls :
                  \E newTokens \in TokenResponses(ResponseRefreshTokens) :
                      refreshAccessToken_resolves(call, newTokens))
              /\ oaReturned'.accessToken # << >>)
               => /\ tokenStore' # << >>
                  /\ oaReturned'.accessToken = << tokenStore'[1].access_token >>
                  /\ tokenStore'[1].expires_at > now ]_vars

\* a read has found the item at the very minute of its expiry, returned
\* null and emptied the store
C28_Witness ==
    /\ oaReturned.call \in {"getStoredTokens", "getValidAccessToken"}
    /\ oaReturned.tokens # << >>
    /\ oaReturned.tokens[1].expires_at = now
    /\ oaReturned.tokens[1].refresh_token = << >>
    /\ oaReturned.value = << >>
    /\ oaReturned.accessToken = << >>
    /\ tokenStore = << >>
    /\ oaCalls = {}

\* C29: after any number of successful refreshes by getValidAccessToken the
\* stored tokens still contain the refresh_token that was stored before the
\* first refresh (a response without refresh_token never erases it), and
\* the returned access token is the one of the latest refresh response.
C29_RefreshKeepsRefreshToken ==
    [][ \A call \in oaCalls :
          \A newTokens \in TokenResponses(ResponseRefreshTokens) :
            refreshAccessToken_resolves(call, newTokens) =>
                /\ tokenStore'[1].refresh_token = call.tokens.refresh_token
                /\ (tokenStore = << call.tokens >>
                       => tokenStore'[1].refresh_token = tokenStore[1].refresh_token)
                /\ tokenStore'[1].refresh_token # << >>
                /\ oaReturned'.accessToken = << newTokens.access_token >>
                /\ tokenStore'[1].access_token = newTokens.access_token
                /\ newTokens.access_token = oaIssued' ]_vars

\* the second refresh in a row has returned: the store holds the refresh
\* token of the login and the access token of the second response
C29_Witness ==
    /\ oaIssued = 3
    /\ oaReturned.call = "getValidAccessToken"
    /\ oaReturned.accessToken = << 3 >>
    /\ oaReturned.tokens # << >>
    /\ oaReturned.tokens[1].access_token = 2
    /\ tokenStore # << >>
    /\ tokenStore[1].refresh_token = << "r1" >>
    /\ tokenStore[1].access_token = 3

\* the stored token is within five minutes of its expiry and a refresh
\* token is stored
RefreshDue ==
    /\ tokenStore # << >>
    /\ tokenStore[1].expires_at - now > 0
    /\ tokenStore[1].expires_at - now < RefreshWindowMinutes
    /\ tokenStore[1].refresh_token # << >>

\* C30: when the stored token is within 5 minutes of its expiry, a refresh
\* token is stored and the refresh request fails, getValidAccessToken
\* returns null (not the old access token), does not throw, and leaves the
\* token store empty.
C30_FailedRefreshReturnsNull ==
    [][ /\ (getValidAccessToken /\ RefreshDue)
               => /\ oaReturned'.call = "awaiting"
                  /\ \E call \in oaCalls' \ oaCalls : << call.tokens >> = tokenStore
        /\ \A call \in oaCalls :
               refreshAccessToken_rejects(call) =>
                   /\ oaReturned'.call = "getValidAccessToken"
                   /\ oaReturned'.accessToken = << >>
                   /\ tokenStore' = << >>
                   /\ call \notin oaCalls' ]_vars

\* a refresh has failed while the old token was still stored and not yet
\* expired
C30_Witness ==
    /\ oaReturned.call = "getValidAccessToken"
    /\ oaReturned.tokens # << >>
    /\ oaReturned.tokens[1].expires_at > now
    /\ oaReturned.tokens[1].refresh_token # << >>
    /\ oaReturned.accessToken = << >>
    /\ tokenStore = << >>

====
